---- MODULE Spec2Model ----
(***************************************************************************)
(* FilmFinder: the recommendation flow of POST /api/recommend.             *)
(*                                                                         *)
(* Text (error messages, movie titles, AI replies) is modelled as a        *)
(* sequence of word tokens; String.prototype.includes is the contiguous    *)
(* sub-sequence test on those tokens.  Every literal the code searches for *)
(* falls on word boundaries of the messages the code and its upstream      *)
(* libraries produce, so the token test decides as the character test.     *)
(* Decimal numbers (confidence scores) are integers in hundredths.         *)
(***************************************************************************)
EXTENDS Integers, Sequences, FiniteSets, TLC

\* How many fields of a quiz payload may deviate from the well-formed value.
MaxDefects == 1

\* How many entries a metadata search result list may hold.
MaxResults == 2

(***************************************************************************)
(* Text                                                                    *)
(***************************************************************************)

\* msg.includes(pat)
Includes(msg, pat) ==
    \E i \in 1..(Len(msg) - Len(pat) + 1) : SubSeq(msg, i, i + Len(pat) - 1) = pat

RECURSIVE TrimStart(_)
TrimStart(s) == IF s # <<>> /\ Head(s) = " " THEN TrimStart(Tail(s)) ELSE s

RECURSIVE TrimEnd(_)
TrimEnd(s) ==
    IF s # <<>> /\ s[Len(s)] = " " THEN TrimEnd(SubSeq(s, 1, Len(s) - 1)) ELSE s

\* s.trim()
Trim(s) == TrimEnd(TrimStart(s))

(***************************************************************************)
(* Quiz payloads (the decoded request body)                                *)
(***************************************************************************)

MoodFields ==
    <<"currentMood", "desiredFeeling", "genre", "intensity", "setting",
      "companionType", "duration">>

LikesFields ==
    <<"favoriteMovies", "favoriteGenres", "favoriteActors", "dislikedGenres",
      "preferredDecade", "viewingContext">>

LikesArrayFields ==
    <<"favoriteMovies", "favoriteGenres", "favoriteActors", "dislikedGenres">>

Range(s) == {s[i] : i \in DOMAIN s}

AllFields == Range(MoodFields) \cup Range(LikesFields)

\* The JSON values a field of responses may hold, by kind: not there, null,
\* false, "", 0, a non-empty string, [], a non-empty array.
FieldVals == {"absent", "null", "false", "emptystr", "zero", "str", "emptyarr", "arr"}

\* JavaScript truthiness of a field value: !x is false.
Truthy(v) == v \in {"str", "emptyarr", "arr"}

\* Array.isArray(x)
IsArray(v) == v \in {"emptyarr", "arr"}

\* The value the quiz pages put in a field.
GoodVal(f) == IF f \in Range(LikesArrayFields) THEN "arr" ELSE "str"

RequiredOf(type) == IF type = "mood" THEN Range(MoodFields) ELSE Range(LikesFields)

\* A responses object of the given quiz with every field as the quiz page
\* writes it.
GoodFields(type) ==
    [f \in AllFields |-> IF f \in RequiredOf(type) THEN GoodVal(f) ELSE "absent"]

\* The responses objects that deviate from the well-formed one in at most
\* MaxDefects fields.
FieldMaps(type) ==
    UNION { { [f \in AllFields |-> IF f \in S THEN d[f] ELSE GoodFields(type)[f]] :
                d \in [S -> FieldVals] } :
            S \in {T \in SUBSET RequiredOf(type) : Cardinality(T) <= MaxDefects} }

NoFields == [f \in AllFields |-> "absent"]

\* body.type: not there, "", "mood", "likes", another string, a number.
TypeVals == {"absent", "emptystr", "mood", "likes", "other", "num"}

\* body.responses: not there, null, a string, an object.
RespKinds == {"absent", "null", "string", "object"}

Body(kind, type, rkind, fields) ==
    [kind |-> kind, type |-> type, rkind |-> rkind, fields |-> fields]

\* What request.json() can give: a failure to parse, or a decoded value.
Bodies ==
    { Body(k, "absent", "absent", NoFields) :
        k \in {"unparseable", "null", "string", "number", "array"} }
    \cup { Body("object", t, r, NoFields) :
             t \in TypeVals, r \in {"absent", "null", "string"} }
    \cup { Body("object", t, "object", GoodFields("mood")) :
             t \in TypeVals \ {"mood", "likes"} }
    \cup { Body("object", t, "object", fm) :
             t \in {"mood", "likes"}, fm \in FieldMaps("mood") \cup FieldMaps("likes") }

\* typedData.type and typedData.responses of a decoded value
TypeOf(b) == IF b.kind = "object" THEN b.type ELSE "absent"
TypeTruthy(b) == TypeOf(b) \in {"mood", "likes", "other", "num"}
ResponsesTruthy(b) == b.kind = "object" /\ b.rkind \in {"string", "object"}
\* responses[field]
RespField(b, f) == IF b.rkind = "object" THEN b.fields[f] ELSE "absent"

(***************************************************************************)
(* Errors                                                                  *)
(***************************************************************************)

\* A thrown value: an Error with a message, or something that is no Error.
Err(msg) == [isError |-> TRUE, message |-> msg]
NoErr == [isError |-> FALSE, message |-> <<"none">>]

InvalidQuizData == <<"Invalid", "quiz", "data">>

MissingFieldMsg(type, f) == <<"Invalid", type, "quiz", "data", ":", "missing", f>>
NotArrayMsg(f) == <<"Invalid", "likes", "quiz", "data", ":", f, "must", "be", "an", "array">>

\* The first field of the list that fails the test, 0 when none does.
RECURSIVE FirstFailing(_, _, _, _)
FirstFailing(b, fs, i, arrays) ==
    IF i > Len(fs) THEN 0
    ELSE IF (arrays /\ ~IsArray(RespField(b, fs[i])))
            \/ (~arrays /\ ~Truthy(RespField(b, fs[i])))
         THEN i
         ELSE FirstFailing(b, fs, i + 1, arrays)

NoMsg == <<>>

\* validateQuizData without its check that type is "mood" or "likes".
validateQuizData_NoTypeCheck(b) ==
    IF b.kind \in {"null", "string", "number"}
    THEN InvalidQuizData \o <<":", "must", "be", "an", "object">>
    ELSE IF ~TypeTruthy(b) \/ ~ResponsesTruthy(b)
    THEN InvalidQuizData \o <<":", "missing", "type", "or", "responses">>
    ELSE IF TypeOf(b) = "mood"
    THEN LET i == FirstFailing(b, MoodFields, 1, FALSE)
         IN  IF i # 0 THEN MissingFieldMsg("mood", MoodFields[i]) ELSE NoMsg
    ELSE LET i == FirstFailing(b, LikesFields, 1, FALSE)
             j == FirstFailing(b, LikesArrayFields, 1, TRUE)
         IN  IF i # 0 THEN MissingFieldMsg("likes", LikesFields[i])
             ELSE IF j # 0 THEN NotArrayMsg(LikesArrayFields[j])
             ELSE NoMsg

\* validateQuizData without its loop over the likes list fields.
validateQuizData_NoArrayCheck(b) ==
    IF b.kind \in {"null", "string", "number"}
    THEN InvalidQuizData \o <<":", "must", "be", "an", "object">>
    ELSE IF ~TypeTruthy(b) \/ ~ResponsesTruthy(b)
    THEN InvalidQuizData \o <<":", "missing", "type", "or", "responses">>
    ELSE IF TypeOf(b) \notin {"mood", "likes"}
    THEN InvalidQuizData \o <<":", "type", "must", "be", "mood", "or", "likes">>
    ELSE LET fs == IF TypeOf(b) = "mood" THEN MoodFields ELSE LikesFields
             i == FirstFailing(b, fs, 1, FALSE)
         IN  IF i # 0 THEN MissingFieldMsg(TypeOf(b), fs[i]) ELSE NoMsg

\* The message validateQuizData throws for a decoded body, NoMsg when it
\* returns the body.
validateQuizData(b) ==
    IF b.kind \in {"null", "string", "number"}
    THEN InvalidQuizData \o <<":", "must", "be", "an", "object">>
    ELSE IF ~TypeTruthy(b) \/ ~ResponsesTruthy(b)
    THEN InvalidQuizData \o <<":", "missing", "type", "or", "responses">>
    ELSE IF TypeOf(b) \notin {"mood", "likes"}
    THEN InvalidQuizData \o <<":", "type", "must", "be", "mood", "or", "likes">>
    ELSE IF TypeOf(b) = "mood"
    THEN LET i == FirstFailing(b, MoodFields, 1, FALSE)
         IN  IF i # 0 THEN MissingFieldMsg("mood", MoodFields[i]) ELSE NoMsg
    ELSE LET i == FirstFailing(b, LikesFields, 1, FALSE)
             j == FirstFailing(b, LikesArrayFields, 1, TRUE)
         IN  IF i # 0 THEN MissingFieldMsg("likes", LikesFields[i])
             ELSE IF j # 0 THEN NotArrayMsg(LikesArrayFields[j])
             ELSE NoMsg

\* The code the catch block of POST picks for a thrown value.
ErrorCode(e) ==
    IF ~e.isError THEN "INTERNAL_ERROR"
    ELSE IF Includes(e.message, InvalidQuizData) THEN "INVALID_QUIZ_DATA"
    ELSE IF Includes(e.message, <<"Gemini", "API">>) THEN "AI_API_ERROR"
    ELSE IF Includes(e.message, <<"TMDB">>) \/ Includes(e.message, <<"Movie", "not", "found">>)
    THEN "TMDB_API_ERROR"
    ELSE IF Includes(e.message, <<"not", "found">>) THEN "MOVIE_NOT_FOUND"
    ELSE "INTERNAL_ERROR"

\* Every failure answered with status 500.
StatusOf_Always500(code) == 500

\* status: errorCode === 'INVALID_QUIZ_DATA' ? 400 : 500
StatusOf(code) == IF code = "INVALID_QUIZ_DATA" THEN 400 ELSE 500

(***************************************************************************)
(* The generative model's reply and its parsing                            *)
(***************************************************************************)

\* A JSON value: its type t, text s (a string), number n, elements a (an array).
JV(t, s, n, a) == [t |-> t, s |-> s, n |-> n, a |-> a]
JAbsent == JV("absent", <<>>, 0, <<>>)
JNull == JV("null", <<>>, 0, <<>>)
JStr(s) == JV("str", s, 0, <<>>)
JNum(n) == JV("num", <<>>, n, <<>>)
JArr(a) == JV("arr", <<>>, 0, a)

\* JavaScript truthiness of a JSON value.
JTruthy(v) ==
    CASE v.t = "str" -> v.s # <<>>
      [] v.t = "num" -> v.n # 0
      [] v.t = "arr" -> TRUE
      [] OTHER -> FALSE

\* A reply is a sequence of chunks: prose, "{", "}", or a "key": value member.
Chunk(c, k, v) == [c |-> c, k |-> k, v |-> v]
Prose == Chunk("text", "", JAbsent)
Open == Chunk("open", "", JAbsent)
Close == Chunk("close", "", JAbsent)
Member(k, v) == Chunk("member", k, v)

ReplyKeys ==
    <<"movieTitle", "year", "explanation", "matchReasons", "confidenceScore",
      "alternativeTitle">>

\* The object the prompt asks for.
GoodObject ==
    [k \in Range(ReplyKeys) |->
        CASE k = "movieTitle" -> JStr(<<"Inception">>)
          [] k = "year" -> JNum(2010)
          [] k = "explanation" -> JStr(<<"A", "layered", "heist">>)
          [] k = "matchReasons" ->
                JArr(<<JStr(<<"smart">>), JStr(<<"tense">>), JStr(<<"bold">>)>>)
          [] k = "confidenceScore" -> JNum(95)
          [] OTHER -> JAbsent]

\* The other values a model may write for a key.
Variants(k) ==
    CASE k = "movieTitle" ->
            {JAbsent, JNull, JStr(<<>>), JNum(7), JArr(<<>>),
             JStr(<<" ", "Inception", " ">>),
             JStr(<<"Invalid", "quiz", "data">>), JStr(<<"Gemini", "API">>)}
      [] k = "year" -> {JAbsent, JNum(0), JNum(1994), JStr(<<"2010">>)}
      [] k = "explanation" -> {JAbsent, JStr(<<>>), JNum(7), JStr(<<"A", "heist", " ">>)}
      [] k = "matchReasons" ->
            {JAbsent, JNull, JStr(<<"smart">>), JArr(<<>>),
             JArr(<<JStr(<<" ", "smart">>)>>),
             JArr(<<JStr(<<"smart">>), JNum(7)>>)}
      [] k = "confidenceScore" ->
            {JAbsent, JNull, JNum(150), JNum(-20), JNum(0), JNum(50), JStr(<<"high">>)}
      [] OTHER -> {JStr(<<"Alt", " ">>), JNum(7)}

\* The objects that differ from the asked-for one in at most one key.
Objects ==
    {GoodObject} \cup
    UNION { { [GoodObject EXCEPT ![k] = v] : v \in Variants(k) } : k \in Range(ReplyKeys) }

\* The members of an object as written in the reply, absent keys left out.
RECURSIVE MembersOf(_, _)
MembersOf(o, i) ==
    IF i > Len(ReplyKeys) THEN <<>>
    ELSE (IF o[ReplyKeys[i]].t = "absent" THEN <<>>
          ELSE <<Member(ReplyKeys[i], o[ReplyKeys[i]])>>) \o MembersOf(o, i + 1)

Written(o) == <<Open>> \o MembersOf(o, 1) \o <<Close>>

\* The raw texts the model may reply with.
Replies ==
    { Written(o) : o \in Objects }
    \cup { <<Prose>> \o Written(GoodObject) \o <<Prose>>,
           Written(GoodObject) \o <<Prose, Close>>,
           Written(GoodObject) \o <<Prose, Open, Prose, Close>>,
           <<>>, <<Prose>>, <<Open, Prose, Close>>, <<Close, Prose, Open>>,
           <<Open>> \o MembersOf(GoodObject, 1) }

\* text.match(/\{[\s\S]*\}/): from the first "{" to the last "}" after it;
\* the empty sequence when there is no match.
JsonMatch(text) ==
    LET opens == {i \in DOMAIN text : text[i].c = "open"}
        first == CHOOSE i \in opens : \A j \in opens : i <= j
        closes == {i \in DOMAIN text : text[i].c = "close" /\ i > first}
        last == CHOOSE i \in closes : \A j \in closes : j <= i
    IN  IF opens = {} THEN <<>>
        ELSE IF closes = {} THEN <<>>
        ELSE SubSeq(text, first, last)

\* JSON.parse accepts the span: one pair of braces around members only.
Parses(span) ==
    /\ Len(span) >= 2
    /\ span[1].c = "open"
    /\ span[Len(span)].c = "close"
    /\ \A i \in 2..(Len(span) - 1) : span[i].c = "member"

\* parsed[k]: the value of the last member with that key, JAbsent when none.
Get(span, k) ==
    LET at == {i \in DOMAIN span : span[i].c = "member" /\ span[i].k = k}
    IN  IF at = {} THEN JAbsent ELSE span[CHOOSE i \in at : \A j \in at : j <= i].v

\* A number: NaN, or a value in hundredths.
Num(n) == [nan |-> FALSE, v |-> n]
NaN == [nan |-> TRUE, v |-> 0]

\* Math.min(Math.max(x, 0), 1) on hundredths; NaN stays NaN.
Clamp(x) == IF x.nan THEN NaN ELSE Num(IF x.v < 0 THEN 0 ELSE IF x.v > 100 THEN 100 ELSE x.v)

\* ToNumber of a truthy JSON value, as Math.max coerces its argument.
ToNumber(v) ==
    CASE v.t = "num" -> Num(v.n)
      [] v.t = "arr" /\ v.a = <<>> -> Num(0)
      [] OTHER -> NaN

Suggestion(title, year, expl, reasons, conf, alt) ==
    [movieTitle |-> title, year |-> year, explanation |-> expl,
     matchReasons |-> reasons, confidenceScore |-> conf, alternativeTitle |-> alt]

NoSuggestion == Suggestion(<<>>, JAbsent, <<>>, <<>>, NaN, JAbsent)

\* The fixed recommendation parseAIResponse returns from its catch block.
Fallback ==
    Suggestion(<<"The", "Shawshank", "Redemption">>, JNum(1994),
               <<"A", "universally", "acclaimed", "drama">>,
               << <<"Universally", "loved">>, <<"Emotionally", "satisfying">>,
                  <<"Great", "storytelling">> >>,
               Num(70), JAbsent)

\* The try block without the Array.isArray test on matchReasons.
ParseSucceeds_NoArrayCheck(text) ==
    LET span == JsonMatch(text)
        title == Get(span, "movieTitle")
        expl == Get(span, "explanation")
        reasons == Get(span, "matchReasons")
        alt == Get(span, "alternativeTitle")
    IN  /\ span # <<>>
        /\ Parses(span)
        /\ JTruthy(title) /\ JTruthy(expl) /\ JTruthy(reasons)
        /\ title.t = "str"
        /\ expl.t = "str"
        /\ \A i \in DOMAIN reasons.a : reasons.a[i].t = "str"
        /\ alt.t \in {"absent", "null", "str"}

\* The try block of parseAIResponse runs to its return without throwing.
ParseSucceeds(text) ==
    LET span == JsonMatch(text)
        title == Get(span, "movieTitle")
        expl == Get(span, "explanation")
        reasons == Get(span, "matchReasons")
        alt == Get(span, "alternativeTitle")
    IN  /\ span # <<>>
        /\ Parses(span)
        /\ JTruthy(title) /\ JTruthy(expl) /\ JTruthy(reasons) /\ reasons.t = "arr"
        /\ title.t = "str"
        /\ expl.t = "str"
        /\ \A i \in DOMAIN reasons.a : reasons.a[i].t = "str"
        /\ alt.t \in {"absent", "null", "str"}

\* parseAIResponse(text)
parseAIResponse(text) ==
    LET span == JsonMatch(text)
        year == Get(span, "year")
        conf == Get(span, "confidenceScore")
        alt == Get(span, "alternativeTitle")
        reasons == Get(span, "matchReasons").a
    IN  IF ParseSucceeds(text)
        THEN Suggestion(Trim(Get(span, "movieTitle").s),
                        IF JTruthy(year) THEN year ELSE JAbsent,
                        Trim(Get(span, "explanation").s),
                        [i \in DOMAIN reasons |-> Trim(reasons[i].s)],
                        Clamp(IF JTruthy(conf) THEN ToNumber(conf) ELSE Num(80)),
                        IF alt.t = "str" THEN JStr(Trim(alt.s)) ELSE JAbsent)
        ELSE Fallback

(***************************************************************************)
(* The generative model's failures                                         *)
(***************************************************************************)

AuthFailedMsg ==
    <<"AI", "service", "authentication", "failed", ".", "Please", "check", "your",
      "API", "key", ".">>
RateLimitMsg ==
    <<"AI", "service", "rate", "limit", "exceeded", ".", "Please", "try", "again",
      "later", ".">>
GenerateFailedMsg ==
    <<"Failed", "to", "generate", "movie", "recommendation", ".", "Please", "try",
      "again", ".">>

SdkPrefix == <<"[GoogleGenerativeAI Error]", ":", "Error", "fetching", "from", "url", ":">>

\* What model.generateContent / response.text() can throw, with the kind of
\* failure the provider signalled: 403, 429, or anything else (a 500, a
\* network failure, a blocked reply, a thrown value that is no Error).
AIFailures ==
    { [kind |-> "auth", err |-> Err(SdkPrefix \o <<"[", "403", "Forbidden", "]", "API", "key", "not", "valid">>)],
      [kind |-> "rate", err |-> Err(SdkPrefix \o <<"[", "429", "Too", "Many", "Requests", "]", "Resource", "exhausted">>)],
      [kind |-> "other", err |-> Err(SdkPrefix \o <<"[", "500", "Internal", "Server", "Error", "]">>)],
      [kind |-> "other", err |-> Err(<<"fetch", "failed">>)],
      [kind |-> "other", err |-> Err(<<"[GoogleGenerativeAI Error]", ":", "Text", "not", "available", ".">>)],
      [kind |-> "other", err |-> NoErr] }

NoAIFailure == [kind |-> "none", err |-> NoErr]

\* error.message?.includes(pat) in the catch block of generateRecommendation
MessageIncludes(e, pat) == e.isError /\ Includes(e.message, pat)

\* The catch block without its test for 429.
generateRecommendationError_No429(e) ==
    IF MessageIncludes(e, <<"403", "Forbidden">>) THEN Err(AuthFailedMsg)
    ELSE Err(GenerateFailedMsg)

\* The error generateRecommendation throws from its catch block.
generateRecommendationError(e) ==
    IF MessageIncludes(e, <<"403", "Forbidden">>) THEN Err(AuthFailedMsg)
    ELSE IF MessageIncludes(e, <<"429">>) THEN Err(RateLimitMsg)
    ELSE Err(GenerateFailedMsg)

(***************************************************************************)
(* The metadata provider                                                   *)
(***************************************************************************)

MovieIds == {550, 27205}

\* The outcome of one fetch: the promise rejects, the status is not OK, the
\* body is no JSON, or the decoded payload.
Http(kind, status) == [kind |-> kind, status |-> status]
HttpFailures ==
    { Http("reject", "0"), Http("badjson", "200") }
    \cup { Http("nonok", st) : st \in {"401", "404", "500"} }
HttpOk == Http("ok", "200")
\* An OK response whose JSON lacks what assembly reads (genres, cast).
HttpMalformed == Http("malformed", "200")
\* The promise of the fetch function fulfils.
Fulfilled(o) == o.kind \in {"ok", "malformed"}
NotSettled == Http("pending", "0")

\* The error a failed fetch ends in; what names the call in the message.
FetchError(o, what) ==
    CASE o.kind = "reject" -> Err(<<"fetch", "failed">>)
      [] o.kind = "nonok" -> Err(<<"TMDB">> \o what \o <<"error", ":", o.status>>)
      [] OTHER -> Err(<<"Unexpected", "token", "<", "in", "JSON">>)

\* The payload of a search: results missing, or a list of movie ids.
RECURSIVE SeqsUpTo(_, _)
SeqsUpTo(S, n) ==
    IF n = 0 THEN {<<>>}
    ELSE SeqsUpTo(S, n - 1) \cup
         {Append(q, x) : q \in {r \in SeqsUpTo(S, n - 1) : Len(r) = n - 1}, x \in S}

SearchPayloads ==
    {[hasResults |-> FALSE, results |-> <<>>]}
    \cup {[hasResults |-> TRUE, results |-> r] : r \in SeqsUpTo(MovieIds, MaxResults)}

NoPayload == [hasResults |-> FALSE, results |-> <<>>]

\* data.results || []
ResultsOf(p) == IF p.hasResults THEN p.results ELSE <<>>

\* A zero-result search reported with the message of a failed search.
MovieNotFound_AsSearchError(title) == Err(<<"TMDB", "search", "error", ":", "404">>)

\* The error enrichMovieWithTMDB throws when the search gave no result.
MovieNotFound(title) == Err(<<"Movie", "not", "found", ":">> \o title)

\* The record the provider keeps for a movie id: one movie has a poster and
\* no backdrop, the other a backdrop and no poster.
TitleOf(id) == IF id = 550 THEN <<"Fight", "Club">> ELSE <<"Inception">>

\* TMDBMovieDetails, the fields assembly reads. vote_average is in hundredths.
Details(id, title, overview, poster, backdrop, released, genres, average, votes, runtime, imdb) ==
    [id |-> id, title |-> title, overview |-> overview,
     poster_path |-> poster, backdrop_path |-> backdrop,
     release_date |-> released, genres |-> genres,
     vote_average |-> average, vote_count |-> votes,
     runtime |-> runtime, imdb_id |-> imdb]

\* TMDBGenre
Genre(id, name) == [id |-> id, name |-> name]

DetailsOf(id) ==
    IF id = 550
    THEN Details(550, TitleOf(550), <<"An", "insomniac", "office", "worker">>,
                 JStr(<<"/fight-club.jpg">>), JNull, <<"1999-10-15">>,
                 <<Genre(18, "Drama"), Genre(53, "Thriller")>>, 843, 26280,
                 JNum(139), JStr(<<"tt0137523">>))
    ELSE Details(id, TitleOf(id), <<"A", "thief", "who", "steals", "secrets">>,
                 JNull, JStr(<<"/inception-wide.jpg">>), <<"2010-07-15">>,
                 <<Genre(28, "Action")>>, 836, 34000,
                 JNull, JNull)
NoDetails == Details(0, <<>>, <<>>, JNull, JNull, <<>>, <<>>, 0, 0, JNull, JNull)

\* TMDBCastMember, the fields assembly reads.
CastMember(name, character, path) ==
    [name |-> name, character |-> character, profile_path |-> path]

\* TMDBCredits, the cast list.
Credits(cast) == [cast |-> cast]

\* The credits the provider keeps for a movie id: six cast entries for one
\* movie, two for the other.
CreditsOf(id) ==
    IF id = 550
    THEN Credits(<<CastMember("Edward Norton", "The Narrator", JStr(<<"/norton.jpg">>)),
                   CastMember("Brad Pitt", "Tyler Durden", JStr(<<"/pitt.jpg">>)),
                   CastMember("Helena Bonham Carter", "Marla Singer", JNull),
                   CastMember("Meat Loaf", "Robert Paulson", JStr(<<"/loaf.jpg">>)),
                   CastMember("Jared Leto", "Angel Face", JNull),
                   CastMember("Zach Grenier", "Richard Chesler", JNull)>>)
    ELSE Credits(<<CastMember("Leonardo DiCaprio", "Cobb", JNull),
                   CastMember("Elliot Page", "Ariadne", JStr(<<"/page.jpg">>))>>)
NoCredits == Credits(<<>>)

TMDB_IMAGE_BASE_URL == <<"https://image.tmdb.org/t/p/w500">>
TMDB_IMAGE_BASE_URL_LARGE == <<"https://image.tmdb.org/t/p/w1280">>

\* path ? `${base}${path}` : null
ImageUrl(base, path) == IF JTruthy(path) THEN JStr(base \o path.s) ELSE JNull

\* The poster URL built with the base URL of the backdrop.
PosterUrl_LargeBase(details) == ImageUrl(TMDB_IMAGE_BASE_URL_LARGE, details.poster_path)

PosterUrl(details) == ImageUrl(TMDB_IMAGE_BASE_URL, details.poster_path)
BackdropUrl(details) == ImageUrl(TMDB_IMAGE_BASE_URL_LARGE, details.backdrop_path)

\* movieDetails.genres.map(g => g.name)
GenreNames(genres) == [i \in 1..Len(genres) |-> genres[i].name]

\* Math.round(movieDetails.vote_average * 10) / 10, in hundredths.
Rating(average) == ((average + 5) \div 10) * 10

\* How many cast entries a recommendation shows.
TopCast == 5

\* slice(0, 5)
Slice(q, n) == SubSeq(q, 1, IF Len(q) < n THEN Len(q) ELSE n)

\* One entry of the cast of a recommendation.
CastEntry(m) ==
    [name |-> m.name, character |-> m.character,
     profileUrl |-> ImageUrl(TMDB_IMAGE_BASE_URL, m.profile_path)]

\* The whole cast list shown.
CastShown_All(credits) == [i \in 1..Len(credits.cast) |-> CastEntry(credits.cast[i])]

\* credits.cast.slice(0, 5).map(...)
CastShown(credits) ==
    LET top == Slice(credits.cast, TopCast)
    IN  [i \in 1..Len(top) |-> CastEntry(top[i])]

\* The title the suggestion carries shown instead of the record's.
TitleShown_FromAI(ai, details) == ai.movieTitle

\* title: movieDetails.title
TitleShown(ai, details) == details.title

\* `https://www.themoviedb.org/movie/${movieDetails.id}`
TmdbUrl(details) == <<"https://www.themoviedb.org/movie/", ToString(details.id)>>

\* movieDetails.imdb_id ? `https://www.imdb.com/title/${movieDetails.imdb_id}` : undefined
ImdbUrl(details) ==
    IF JTruthy(details.imdb_id)
    THEN JStr(<<"https://www.imdb.com/title/">> \o details.imdb_id.s)
    ELSE JAbsent

Recommendation(ai, details, credits) ==
    [explanation |-> ai.explanation, matchReasons |-> ai.matchReasons,
     confidenceScore |-> ai.confidenceScore,
     tmdbId |-> details.id, title |-> TitleShown(ai, details),
     overview |-> details.overview,
     posterUrl |-> PosterUrl(details), backdropUrl |-> BackdropUrl(details),
     releaseDate |-> details.release_date,
     genres |-> GenreNames(details.genres),
     rating |-> Rating(details.vote_average),
     voteCount |-> details.vote_count,
     runtime |-> details.runtime,
     cast |-> CastShown(credits),
     tmdbUrl |-> TmdbUrl(details), imdbUrl |-> ImdbUrl(details)]

NoRecommendation == Recommendation(NoSuggestion, NoDetails, NoCredits)

\* buildMovieRecommendation(aiRecommendation, movieDetails, credits)
buildMovieRecommendation(ai, details, credits) == Recommendation(ai, details, credits)

\* The TypeError of reading genres.map / cast.slice of a record without them.
AssemblyError == Err(<<"Cannot", "read", "properties", "of", "undefined">>)

\* The SyntaxError of request.json() for a body that is no JSON: older
\* runtimes name the offending token, newer ones also quote the body text.
JsonSyntaxErrors ==
    { <<"Unexpected", "token", "h", "in", "JSON", "at", "position", "0">>,
      <<"Unexpected", "end", "of", "JSON", "input">>,
      <<"Unexpected", "token", "'T'", ",", "\"", "TMDB", "\"", "is", "not", "valid", "JSON">> }

(***************************************************************************)
(* POST /api/recommend                                                     *)
(***************************************************************************)

VARIABLES
    pc,          \* where the handler is: "start", "ai_wait", "search_wait", "fetch_wait", "done"
    body,        \* what request.json() gives
    tmdbKey,     \* TMDB_API_KEY is configured
    aiFailure,   \* what the model call threw, NoAIFailure when nothing
    aiReplied,   \* the model call returned a text
    aiReply,     \* that text
    suggestion,  \* aiRecommendation
    usedFallback,\* parseAIResponse went through its catch block
    searchHttp,  \* outcome of the search fetch
    searchData,  \* its decoded payload
    detailsHttp, \* outcome of the details fetch
    creditsHttp, \* outcome of the credits fetch
    thrown,      \* the value the catch block of POST received
    response,    \* the response returned
    calls        \* upstream calls issued so far

postVars ==
    <<pc, body, tmdbKey, aiFailure, aiReplied, aiReply, suggestion, usedFallback,
      searchHttp, searchData, detailsHttp, creditsHttp, thrown, response, calls>>

\* The other units of the program, each with its state in one record; a
\* unit that takes no part in a specification stays Idle.
VARIABLES
    build,       \* one call of buildMovieRecommendation: its arguments and result
    results,     \* the results page
    select,      \* the movie-selection step of the likes quiz
    ad,          \* the ad interstitial page
    wizard,      \* QuizWizard
    quiz,        \* a quiz page completing, and its payload on the way to the results page
    proxy        \* GET /api/movies/search

Idle == [unit |-> "idle"]

pages == <<build, results, select, ad, wizard, quiz, proxy>>

\* What each unit leaves alone.
butBuild == <<postVars, results, select, ad, wizard, quiz, proxy>>
butResults == <<postVars, build, select, ad, wizard, quiz, proxy>>
butSelect == <<postVars, build, results, ad, wizard, quiz, proxy>>
butAd == <<postVars, build, results, select, wizard, quiz, proxy>>
butWizard == <<postVars, build, results, select, ad, quiz, proxy>>
butQuiz == <<postVars, build, results, select, ad, wizard, proxy>>
butProxy == <<postVars, build, results, select, ad, wizard, quiz>>

vars == <<postVars, pages>>

\* metadata of the success envelope (processingTime and timestamp left out).
Metadata(quizType, aiModel) == [quizType |-> quizType, aiModel |-> aiModel]
NoMetadata == Metadata("", "")

NoResponse ==
    [status |-> 0, success |-> FALSE, code |-> "", error |-> <<>>,
     recommendation |-> NoRecommendation, metadata |-> NoMetadata]

\* The failure envelope of the catch block of POST.
ErrorResponse(e) ==
    [status |-> StatusOf(ErrorCode(e)), success |-> FALSE, code |-> ErrorCode(e),
     error |-> IF e.isError THEN e.message ELSE <<"An", "unexpected", "error", "occurred">>,
     recommendation |-> NoRecommendation, metadata |-> NoMetadata]

SuccessResponse(rec, quizType) ==
    [status |-> 200, success |-> TRUE, code |-> "", error |-> <<>>,
     recommendation |-> rec, metadata |-> Metadata(quizType, "gemini-pro")]

\* The handler before a request arrived.
PostStart ==
    /\ pc = "start"
    /\ aiFailure = NoAIFailure
    /\ aiReplied = FALSE
    /\ aiReply = <<>>
    /\ suggestion = NoSuggestion
    /\ usedFallback = FALSE
    /\ searchHttp = NotSettled
    /\ searchData = NoPayload
    /\ detailsHttp = NotSettled
    /\ creditsHttp = NotSettled
    /\ thrown = NoErr
    /\ response = NoResponse
    /\ calls = [ai |-> 0, search |-> 0, details |-> 0, credits |-> 0]

\* The handler taking no part in a specification.
PostIdle ==
    /\ PostStart
    /\ body = Body("null", "absent", "absent", NoFields)
    /\ tmdbKey = TRUE

Init ==
    /\ PostStart
    /\ body \in Bodies
    /\ tmdbKey \in BOOLEAN
    /\ build = Idle /\ results = Idle /\ select = Idle /\ ad = Idle
    /\ wizard = Idle /\ quiz = Idle /\ proxy = Idle

\* The catch block of POST: the thrown value becomes the response.
Fail(e) ==
    /\ thrown' = e
    /\ response' = ErrorResponse(e)
    /\ pc' = "done"

\* request.json() fails, or validateQuizData throws.
RejectRequest ==
    /\ pc = "start"
    /\ \/ /\ body.kind = "unparseable"
          /\ \E m \in JsonSyntaxErrors : Fail(Err(m))
       \/ /\ body.kind # "unparseable"
          /\ validateQuizData(body) # NoMsg
          /\ Fail(Err(validateQuizData(body)))
    /\ UNCHANGED pages
    /\ UNCHANGED <<body, tmdbKey, aiFailure, aiReplied, aiReply, suggestion, usedFallback,
                   searchHttp, searchData, detailsHttp, creditsHttp, calls>>

\* The model call issued for a decoded body without validating it.
AcceptRequest_NoValidation ==
    /\ pc = "start"
    /\ body.kind # "unparseable"
    /\ calls' = [calls EXCEPT !.ai = @ + 1]
    /\ pc' = "ai_wait"
    /\ UNCHANGED pages
    /\ UNCHANGED <<body, tmdbKey, aiFailure, aiReplied, aiReply, suggestion, usedFallback,
                   searchHttp, searchData, detailsHttp, creditsHttp, thrown, response>>

\* validateQuizData returns; generateRecommendation issues the model call.
AcceptRequest ==
    /\ pc = "start"
    /\ body.kind # "unparseable"
    /\ validateQuizData(body) = NoMsg
    /\ calls' = [calls EXCEPT !.ai = @ + 1]
    /\ pc' = "ai_wait"
    /\ UNCHANGED pages
    /\ UNCHANGED <<body, tmdbKey, aiFailure, aiReplied, aiReply, suggestion, usedFallback,
                   searchHttp, searchData, detailsHttp, creditsHttp, thrown, response>>

\* The model call throws: generateRecommendation rethrows, POST catches.
AIFails ==
    /\ pc = "ai_wait"
    /\ \E f \in AIFailures :
          /\ aiFailure' = f
          /\ Fail(generateRecommendationError(f.err))
    /\ UNCHANGED pages
    /\ UNCHANGED <<body, tmdbKey, aiReplied, aiReply, suggestion, usedFallback,
                   searchHttp, searchData, detailsHttp, creditsHttp, calls>>

\* The model call returns a text: it is parsed, and enrichMovieWithTMDB
\* throws for a missing key or issues the search.
AIReplies ==
    /\ pc = "ai_wait"
    /\ \E text \in Replies :
          /\ aiReplied' = TRUE
          /\ aiReply' = text
          /\ suggestion' = parseAIResponse(text)
          /\ usedFallback' = ~ParseSucceeds(text)
    /\ IF tmdbKey
       THEN /\ calls' = [calls EXCEPT !.search = @ + 1]
            /\ pc' = "search_wait"
            /\ UNCHANGED <<thrown, response>>
       ELSE /\ Fail(Err(<<"TMDB", "API", "key", "not", "configured">>))
            /\ UNCHANGED calls
    /\ UNCHANGED pages
    /\ UNCHANGED <<body, tmdbKey, aiFailure, searchHttp, searchData, detailsHttp, creditsHttp>>

\* A failed search fetch issued once more before giving up.
SearchFails_Retry ==
    /\ pc = "search_wait"
    /\ \E o \in HttpFailures :
          /\ searchHttp' = o
          /\ IF calls.search < 2
             THEN /\ calls' = [calls EXCEPT !.search = @ + 1]
                  /\ UNCHANGED <<pc, thrown, response>>
             ELSE /\ Fail(FetchError(o, <<"search">>))
                  /\ UNCHANGED calls
    /\ UNCHANGED pages
    /\ UNCHANGED <<body, tmdbKey, aiFailure, aiReplied, aiReply, suggestion, usedFallback,
                   searchData, detailsHttp, creditsHttp>>

\* The search fetch fails.
SearchFails ==
    /\ pc = "search_wait"
    /\ \E o \in HttpFailures :
          /\ searchHttp' = o
          /\ Fail(FetchError(o, <<"search">>))
    /\ UNCHANGED pages
    /\ UNCHANGED <<body, tmdbKey, aiFailure, aiReplied, aiReply, suggestion, usedFallback,
                   searchData, detailsHttp, creditsHttp, calls>>

\* The search fetch returns a payload: no result is "Movie not found",
\* otherwise the details and the credits of the first result are requested.
SearchReturns ==
    /\ pc = "search_wait"
    /\ searchHttp' = HttpOk
    /\ \E p \in SearchPayloads :
          /\ searchData' = p
          /\ IF Len(ResultsOf(p)) = 0
             THEN /\ Fail(MovieNotFound(suggestion.movieTitle))
                  /\ UNCHANGED calls
             ELSE /\ calls' = [calls EXCEPT !.details = @ + 1, !.credits = @ + 1]
                  /\ pc' = "fetch_wait"
                  /\ UNCHANGED <<thrown, response>>
    /\ UNCHANGED pages
    /\ UNCHANGED <<body, tmdbKey, aiFailure, aiReplied, aiReply, suggestion, usedFallback,
                   detailsHttp, creditsHttp>>

\* The last search result taken instead of the first.
movie_Last == ResultsOf(searchData)[Len(ResultsOf(searchData))]

\* searchResults[0]
movie == ResultsOf(searchData)[1]

\* Promise.all resolved: the recommendation is built and returned.
Respond ==
    /\ response' = SuccessResponse(buildMovieRecommendation(suggestion, DetailsOf(movie), CreditsOf(movie)),
                                   body.type)
    /\ pc' = "done"
    /\ UNCHANGED thrown

\* Both fetches fulfilled with payloads d and c: assembly throws on a
\* payload without the lists it maps over, otherwise the response is built.
Join(d, c) ==
    IF d = HttpMalformed \/ c = HttpMalformed THEN Fail(AssemblyError) ELSE Respond

\* The details fetch settles and the response is built without waiting for
\* the credits.
DetailsSettles_NoJoin ==
    /\ pc = "fetch_wait"
    /\ detailsHttp = NotSettled
    /\ \E o \in HttpFailures \cup {HttpOk, HttpMalformed} :
          /\ detailsHttp' = o
          /\ IF ~Fulfilled(o) THEN Fail(FetchError(o, <<"movie", "details">>))
             ELSE Join(o, HttpOk)
    /\ UNCHANGED pages
    /\ UNCHANGED <<body, tmdbKey, aiFailure, aiReplied, aiReply, suggestion, usedFallback,
                   searchHttp, searchData, creditsHttp, calls>>

\* The details fetch settles.
DetailsSettles ==
    /\ pc = "fetch_wait"
    /\ detailsHttp = NotSettled
    /\ \E o \in HttpFailures \cup {HttpOk, HttpMalformed} :
          /\ detailsHttp' = o
          /\ IF ~Fulfilled(o) THEN Fail(FetchError(o, <<"movie", "details">>))
             ELSE IF Fulfilled(creditsHttp) THEN Join(o, creditsHttp)
             ELSE UNCHANGED <<pc, thrown, response>>
    /\ UNCHANGED pages
    /\ UNCHANGED <<body, tmdbKey, aiFailure, aiReplied, aiReply, suggestion, usedFallback,
                   searchHttp, searchData, creditsHttp, calls>>

\* The credits fetch settles.
CreditsSettles ==
    /\ pc = "fetch_wait"
    /\ creditsHttp = NotSettled
    /\ \E o \in HttpFailures \cup {HttpOk, HttpMalformed} :
          /\ creditsHttp' = o
          /\ IF ~Fulfilled(o) THEN Fail(FetchError(o, <<"credits">>))
             ELSE IF Fulfilled(detailsHttp) THEN Join(detailsHttp, o)
             ELSE UNCHANGED <<pc, thrown, response>>
    /\ UNCHANGED pages
    /\ UNCHANGED <<body, tmdbKey, aiFailure, aiReplied, aiReply, suggestion, usedFallback,
                   searchHttp, searchData, detailsHttp, calls>>

Next ==
    \/ RejectRequest
    \/ AcceptRequest
    \/ AIFails
    \/ AIReplies
    \/ SearchFails
    \/ SearchReturns
    \/ DetailsSettles
    \/ CreditsSettles

Spec == Init /\ [][Next]_vars

(***************************************************************************)
(* buildMovieRecommendation on its own                                     *)
(***************************************************************************)

\* The longest cast list tried.
MaxCast == 6

CastPool ==
    { CastMember("Keanu Reeves", "Neo", JStr(<<"/reeves.jpg">>)),
      CastMember("Carrie-Anne Moss", "Trinity", JNull) }

BuildSuggestions ==
    { Fallback,
      Suggestion(<<"The", "Matrix", "(1999)">>, JNum(1999), <<"A", "hacker", "wakes", "up">>,
                 << <<"smart">>, <<"tense">> >>, Num(95), JAbsent) }

BuildDetails ==
    { Details(id, TitleOf(id), <<"A", "plot">>, poster, backdrop, <<"1999-03-31">>,
              <<Genre(878, "Science Fiction")>>, average, 25000, runtime, imdb) :
        id \in MovieIds,
        poster \in {JNull, JStr(<<"/poster.jpg">>)},
        backdrop \in {JNull, JStr(<<"/backdrop.jpg">>)},
        average \in {820, 825},
        runtime \in {JNull, JNum(136)},
        imdb \in {JNull, JStr(<<"tt0133093">>)} }

BuildCredits == { Credits(c) : c \in SeqsUpTo(CastPool, MaxCast) }

BuildInit ==
    /\ PostIdle
    /\ build \in { [ai |-> a, details |-> d, credits |-> c,
                    returned |-> FALSE, result |-> NoRecommendation] :
                     a \in BuildSuggestions, d \in BuildDetails, c \in BuildCredits }
    /\ results = Idle /\ select = Idle /\ ad = Idle
    /\ wizard = Idle /\ quiz = Idle /\ proxy = Idle

\* buildMovieRecommendation is called and returns.
Build ==
    /\ ~build.returned
    /\ build' = [build EXCEPT !.returned = TRUE,
                              !.result = buildMovieRecommendation(build.ai, build.details,
                                                                  build.credits)]
    /\ UNCHANGED butBuild

BuildSpec == BuildInit /\ [][Build]_vars

(***************************************************************************)
(* The results page                                                        *)
(***************************************************************************)

\* sessionStorage.getItem('completedQuiz'): null, or the text stored.
Item(kind, value) == [kind |-> kind, value |-> value]
NoItem == Item("absent", Body("null", "absent", "absent", NoFields))

\* A quiz payload as the quiz pages write it.
QuizPayload(type) == Body("object", type, "object", GoodFields(type))

\* What the results page can find stored: nothing, the empty text, a text
\* that is no JSON, the text null, or a payload.
StoredItems ==
    { NoItem,
      Item("empty", NoItem.value),
      Item("badjson", NoItem.value),
      Item("json", Body("null", "absent", "absent", NoFields)) }
    \cup { Item("json", QuizPayload(t)) : t \in {"mood", "likes"} }
    \cup { Item("json", Body("object", t, "object", NoFields)) :
             t \in {"mood", "likes", "other"} }

\* The quizData state before setQuizData.
NoQuiz == Body("none", "absent", "absent", NoFields)

\* One call of trackEvent.
Event(name, quizType, message, movieId) ==
    [name |-> name, quiz_type |-> quizType, error_message |-> message, movie_id |-> movieId]

\* What /api/recommend can answer with.
ResultsEnvelopes ==
    { ErrorResponse(e) :
        e \in { Err(MissingFieldMsg("mood", "moods")),
               Err(RateLimitMsg), MovieNotFound(<<"Inception">>), AssemblyError } }
    \cup { SuccessResponse(buildMovieRecommendation(Fallback, DetailsOf(id), CreditsOf(id)), t) :
             id \in MovieIds, t \in {"mood", "likes"} }

\* error instanceof Error ? error.message : 'An unexpected error occurred'
ErrorMessage(e) ==
    IF e.isError THEN e.message ELSE <<"An", "unexpected", "error", "occurred">>

ResultsStart(item) ==
    [pc |-> "unmounted", stored |-> item,
     quizData |-> NoQuiz,      \* the quizData state
     captured |-> NoQuiz,      \* quizData as the closure of the effect holds it
     parsed |-> NoQuiz,        \* parsedQuizData
     ok |-> FALSE,             \* response.ok
     loading |-> "validating", error |-> <<>>,
     recommendation |-> NoRecommendation,
     events |-> <<>>]

ResultsInit ==
    /\ PostIdle
    /\ results \in { ResultsStart(item) : item \in StoredItems }
    /\ build = Idle /\ select = Idle /\ ad = Idle
    /\ wizard = Idle /\ quiz = Idle /\ proxy = Idle

\* The catch block of loadQuizAndGenerateRecommendation: quizData is the
\* value the closure of the effect holds.
ResultsCatch(r, e) ==
    [r EXCEPT !.pc = "done", !.error = ErrorMessage(e), !.loading = "error",
              !.events = IF r.captured # NoQuiz
                         THEN Append(@, Event("recommendation_error", r.captured.type,
                                              ErrorMessage(e), 0))
                         ELSE @]

\* The first render: the effect, created with dependencies [], closes over
\* the quizData of this render.
ResultsMount ==
    /\ results.pc = "unmounted"
    /\ results' = [results EXCEPT !.pc = "effect", !.captured = results.quizData]
    /\ UNCHANGED butResults

\* The effect runs up to its fetch.
ResultsLoad ==
    /\ results.pc = "effect"
    /\ LET item == results.stored
       IN  results' =
             IF item.kind \in {"absent", "empty"}
             THEN [results EXCEPT !.pc = "done", !.loading = "error",
                                  !.error = <<"No", "quiz", "data", "found">>]
             ELSE IF item.kind = "badjson"
             THEN ResultsCatch(results, Err(<<"Unexpected", "token", "in", "JSON">>))
             ELSE IF item.value.kind # "object"
             THEN ResultsCatch([results EXCEPT !.quizData = item.value],
                               Err(<<"Cannot", "read", "properties", "of", "null">>))
             ELSE [results EXCEPT !.pc = "fetch_wait", !.quizData = item.value,
                                  !.parsed = item.value, !.loading = "ai-thinking"]
    /\ UNCHANGED butResults

\* fetch rejects, or the response head arrives.
ResultsFetchSettles ==
    /\ results.pc = "fetch_wait"
    /\ \/ results' = ResultsCatch(results, Err(<<"Failed", "to", "fetch">>))
       \/ results' = [results EXCEPT !.pc = "json_wait", !.ok = FALSE]
       \/ results' = [results EXCEPT !.pc = "json_wait", !.ok = TRUE,
                                     !.loading = "fetching-data"]
    /\ UNCHANGED butResults

\* response.json() settles.
ResultsBodyArrives ==
    /\ results.pc = "json_wait"
    /\ \/ results' = ResultsCatch(results, Err(<<"Unexpected", "token", "<", "in", "JSON">>))
       \/ \E env \in ResultsEnvelopes :
             results' =
               IF ~results.ok
               THEN ResultsCatch(results,
                                 Err(IF ~env.success THEN env.error
                                     ELSE <<"API", "request", "failed">>))
               ELSE IF ~env.success
               THEN ResultsCatch(results, Err(env.error))
               ELSE [results EXCEPT
                       !.pc = "done", !.recommendation = env.recommendation,
                       !.loading = "complete",
                       !.events = Append(@, Event("recommendation_displayed",
                                                  results.parsed.type, <<>>,
                                                  env.recommendation.tmdbId))]
    /\ UNCHANGED butResults

ResultsNext == ResultsMount \/ ResultsLoad \/ ResultsFetchSettles \/ ResultsBodyArrives

ResultsSpec == ResultsInit /\ [][ResultsNext]_vars

(***************************************************************************)
(* The movie-selection step of the likes quiz                              *)
(***************************************************************************)

\* Keystrokes and searches tried.
MaxTyped == 3

\* The texts the search box can hold.
Queries == { <<>>, <<" ">>, <<"in">>, <<"in", "ception">> }

\* What the search route returns for a query, as film ids.
ResultsFor(q) ==
    IF q = <<"in">> THEN <<27205, 550, 603, 13>>
    ELSE IF q = <<"in", "ception">> THEN <<27205>>
    ELSE <<>>

\* setSearchResults, with the query the list answers.
Shown(q, movies) == [query |-> q, movies |-> movies]

\* One fetch of /api/movies/search in flight.
Request(n, q) == [seq |-> n, query |-> q]

\* The timer of debounce: set with the arguments of the last call, or clear.
Timer(armed, q) == [armed |-> armed, query |-> q]
NoTimer == Timer(FALSE, <<>>)

\* The last call of handleMovieToggle: the film and the selection before.
Toggle(film, prev) == [movie |-> film, prev |-> prev]
NoToggle == Toggle(0, <<>>)

\* prev.filter(m => m.id !== film.id)
Without(prev, film) == SelectSeq(prev, LAMBDA m : m # film)

\* The updater that adds a film whatever the size of the selection.
handleMovieToggle_NoLimit(prev, film) ==
    IF \E i \in 1..Len(prev) : prev[i] = film THEN Without(prev, film)
    ELSE Append(prev, film)

\* The updater handleMovieToggle passes to setSelectedMovies.
handleMovieToggle(prev, film) ==
    IF \E i \in 1..Len(prev) : prev[i] = film THEN Without(prev, film)
    ELSE IF Len(prev) < 3 THEN Append(prev, film)
    ELSE prev

\* MovieSelectStep after its first render and effect, with data.selectedMovies
\* and the list of results on display.
SelectStart(initial, shownResults) ==
    [pc |-> "open",
     searchQuery |-> <<>>,
     searchResults |-> shownResults,
     selectedMovies |-> initial,
     rendered |-> initial,          \* selectedMovies as the handlers of the last render see it
     timer |-> Timer(TRUE, <<>>),   \* the effect called debouncedSearch('')
     inflight |-> {},
     issued |-> 0,                  \* fetches issued
     typed |-> 0,                   \* changes of the search box
     latest |-> <<>>,               \* the query of the last search that ran
     isLoading |-> FALSE, error |-> FALSE,
     lastToggle |-> NoToggle,
     handed |-> <<>>,               \* what onNext received
     nextCalls |-> 0]

\* data.selectedMovies: nothing yet, or what an earlier visit of the step chose.
InitialSelections == { <<>>, <<550>>, <<550, 603>>, <<13, 603, 550>> }

SelectInit ==
    /\ PostIdle
    /\ select \in { SelectStart(sel, Shown(<<"in">>, ResultsFor(<<"in">>))) :
                      sel \in InitialSelections }
    /\ build = Idle /\ results = Idle /\ ad = Idle
    /\ wizard = Idle /\ quiz = Idle /\ proxy = Idle

\* React renders the step again: the handlers see the current selection.
SelectRender ==
    /\ select.pc = "open"
    /\ select.rendered # select.selectedMovies
    /\ select' = [select EXCEPT !.rendered = select.selectedMovies]
    /\ UNCHANGED butSelect

\* A click on a search result: canSelect && handleMovieToggle(film).
SelectClickResult ==
    /\ select.pc = "open"
    /\ \E i \in 1..Len(select.searchResults.movies) :
          LET film == select.searchResults.movies[i]
              isSelected == \E j \in 1..Len(select.rendered) : select.rendered[j] = film
              canSelect == Len(select.rendered) < 3 \/ isSelected
          IN  /\ canSelect
              /\ select' = [select EXCEPT
                              !.selectedMovies = handleMovieToggle(@, film),
                              !.lastToggle = Toggle(film, select.selectedMovies)]
    /\ UNCHANGED butSelect

\* A click on the remove button of a selected film.
SelectClickRemove ==
    /\ select.pc = "open"
    /\ \E i \in 1..Len(select.rendered) :
          LET film == select.rendered[i]
          IN  select' = [select EXCEPT
                           !.selectedMovies = handleMovieToggle(@, film),
                           !.lastToggle = Toggle(film, select.selectedMovies)]
    /\ UNCHANGED butSelect

\* handleSubmit
SelectSubmit ==
    /\ select.pc = "open"
    /\ select' = IF Len(select.rendered) > 0
                 THEN [select EXCEPT !.pc = "submitted", !.handed = select.rendered,
                                     !.nextCalls = @ + 1]
                 ELSE [select EXCEPT !.pc = "refused"]
    /\ UNCHANGED butSelect

SelectNext == SelectRender \/ SelectClickResult \/ SelectClickRemove \/ SelectSubmit

SelectSpec == SelectInit /\ [][SelectNext]_vars

\* The step with nothing selected and no results on display.
SearchInit ==
    /\ PostIdle
    /\ select = SelectStart(<<>>, Shown(<<>>, <<>>))
    /\ build = Idle /\ results = Idle /\ ad = Idle
    /\ wizard = Idle /\ quiz = Idle /\ proxy = Idle

\* onChange: setSearchQuery; the effect cancels the pending call and calls
\* debouncedSearch with the new text.
SearchType ==
    /\ select.pc = "open"
    /\ select.typed < MaxTyped
    /\ \E q \in Queries \ {select.searchQuery} :
          select' = [select EXCEPT !.searchQuery = q, !.timer = Timer(TRUE, q),
                                   !.typed = @ + 1]
    /\ UNCHANGED butSelect

\* The timer of debounce fires: the search function runs up to its fetch.
SearchTimerFires ==
    /\ select.pc = "open"
    /\ select.timer.armed
    /\ LET q == select.timer.query
       IN  select' =
             IF Trim(q) = <<>>
             THEN [select EXCEPT !.timer = NoTimer, !.latest = q,
                                 !.searchResults = Shown(q, <<>>)]
             ELSE [select EXCEPT !.timer = NoTimer, !.latest = q,
                                 !.isLoading = TRUE, !.error = FALSE,
                                 !.issued = @ + 1,
                                 !.inflight = @ \cup {Request(select.issued + 1, q)}]
    /\ UNCHANGED butSelect

\* A fetch in flight settles: the rest of the search function.
SearchResponse ==
    /\ select.pc = "open"
    /\ \E r \in select.inflight, outcome \in {"ok", "nonok", "reject", "noresults"} :
          select' =
            IF outcome = "ok"
            THEN [select EXCEPT !.inflight = @ \ {r}, !.isLoading = FALSE,
                                !.searchResults = Shown(r.query, Slice(ResultsFor(r.query), 10))]
            ELSE [select EXCEPT !.inflight = @ \ {r}, !.isLoading = FALSE,
                                !.error = TRUE]
    /\ UNCHANGED butSelect

SearchNext == SearchType \/ SearchTimerFires \/ SearchResponse

SearchSpec == SearchInit /\ [][SearchNext]_vars

(***************************************************************************)
(* The ad interstitial page                                                *)
(***************************************************************************)

\* What the page can find as 'pendingQuiz': nothing, the empty text, a text
\* that is no JSON, the text null, or a payload of a quiz page.
PendingItems ==
    { NoItem,
      Item("empty", NoItem.value),
      Item("badjson", NoItem.value),
      Item("json", Body("null", "absent", "absent", NoFields)) }
    \cup { Item("json", QuizPayload(t)) : t \in {"mood", "likes"} }

\* What 'completedQuiz' can hold from an earlier quiz.
EarlierItems == { NoItem, Item("json", QuizPayload("mood")) }

\* The state of a render as its handlers see it.
Closure(completed, failed) == [isAdCompleted |-> completed, adError |-> failed]

AdStart(pendingItem, completedItem) ==
    [pc |-> "mounting",
     pendingQuiz |-> pendingItem,      \* sessionStorage
     completedQuiz |-> completedItem,
     found |-> pendingItem,            \* what the load effect read
     quizData |-> NoQuiz, isAdCompleted |-> FALSE, adError |-> FALSE,
     seen |-> Closure(FALSE, FALSE),   \* the closure of the handlers on the video element
     fallback |-> FALSE,               \* the 30 s timer is set; its closure is that of the
                                       \* render the timer effect ran in
     ended |-> FALSE, failed |-> FALSE,\* the video element fired ended / error
     viewed |-> 0,                     \* trackEvent('ad_viewed') calls
     scheduled |-> 0,                  \* 500 ms hand-over timeouts set
     waiting |-> 0,                    \* of which not yet fired
     route |-> "/ad"]

AdInit ==
    /\ PostIdle
    /\ ad \in { AdStart(p, c) : p \in PendingItems, c \in EarlierItems }
    /\ build = Idle /\ results = Idle /\ select = Idle
    /\ wizard = Idle /\ quiz = Idle /\ proxy = Idle

\* handleAdComplete as created by a render with the given closure.
handleAdComplete(a, closure) ==
    IF closure.isAdCompleted \/ a.quizData = NoQuiz THEN a
    ELSE [a EXCEPT !.isAdCompleted = TRUE, !.viewed = @ + 1,
                   !.scheduled = @ + 1, !.waiting = @ + 1]

\* The load effect.
AdLoad ==
    /\ ad.pc = "mounting"
    /\ ad' = IF ad.pendingQuiz.kind = "json" /\ ad.pendingQuiz.value.kind = "object"
             THEN [ad EXCEPT !.pc = "loaded", !.quizData = ad.pendingQuiz.value]
             ELSE [ad EXCEPT !.pc = "left", !.route = "/"]
    /\ UNCHANGED butAd

\* The render with quizData: the video element appears and the timer effect
\* sets the fallback timer.
AdShow ==
    /\ ad.pc = "loaded"
    /\ ad' = [ad EXCEPT !.pc = "showing", !.fallback = TRUE,
                        !.seen = Closure(ad.isAdCompleted, ad.adError)]
    /\ UNCHANGED butAd

\* A later render: the handlers on the video element see the current state.
AdRender ==
    /\ ad.pc = "showing"
    /\ ad.seen # Closure(ad.isAdCompleted, ad.adError)
    /\ ad' = [ad EXCEPT !.seen = Closure(ad.isAdCompleted, ad.adError)]
    /\ UNCHANGED butAd

\* onEnded
AdVideoEnded ==
    /\ ad.pc = "showing"
    /\ ~ad.seen.adError /\ ~ad.ended /\ ~ad.failed
    /\ ad' = handleAdComplete([ad EXCEPT !.ended = TRUE], ad.seen)
    /\ UNCHANGED butAd

\* onError: handleVideoError
AdVideoError ==
    /\ ad.pc = "showing"
    /\ ~ad.seen.adError /\ ~ad.ended /\ ~ad.failed
    /\ ad' = handleAdComplete([ad EXCEPT !.failed = TRUE, !.adError = TRUE], ad.seen)
    /\ UNCHANGED butAd

\* The fallback timer fires: handleAdComplete of the render that set it.
AdFallbackFires ==
    /\ ad.pc = "showing"
    /\ ad.fallback
    /\ ad' = handleAdComplete([ad EXCEPT !.fallback = FALSE], Closure(FALSE, FALSE))
    /\ UNCHANGED butAd

\* A hand-over that leaves 'pendingQuiz' in place.
AdHandOver_KeepPending ==
    /\ ad.waiting > 0
    /\ ad' = [ad EXCEPT !.waiting = @ - 1,
                        !.completedQuiz = Item("json", ad.quizData),
                        !.route = "/results"]
    /\ UNCHANGED butAd

\* A 500 ms timeout fires: the hand-over to the results page.
AdHandOver ==
    /\ ad.waiting > 0
    /\ ad' = [ad EXCEPT !.waiting = @ - 1,
                        !.completedQuiz = Item("json", ad.quizData),
                        !.pendingQuiz = NoItem,
                        !.route = "/results"]
    /\ UNCHANGED butAd

\* The router leaves the page: the cleanup of the timer effect.
AdUnmount ==
    /\ ad.pc = "showing"
    /\ ad.route # "/ad"
    /\ ad' = [ad EXCEPT !.pc = "left", !.fallback = FALSE]
    /\ UNCHANGED butAd

AdNext ==
    \/ AdLoad \/ AdShow \/ AdRender \/ AdVideoEnded \/ AdVideoError
    \/ AdFallbackFires \/ AdHandOver \/ AdUnmount

\* Effects, renders and timers that are due do run.
AdSpec ==
    /\ AdInit /\ [][AdNext]_vars
    /\ WF_vars(AdLoad) /\ WF_vars(AdShow) /\ WF_vars(AdFallbackFires) /\ WF_vars(AdHandOver)

(***************************************************************************)
(* QuizWizard                                                              *)
(***************************************************************************)

\* The most steps a wizard is given, and the most submissions followed.
MaxSteps == 3
MaxSubmits == 4

\* Form data: the value of each key, "none" for a key the object lacks.
DataKeys == {"mood", "intensity"}
NoData == [k \in DataKeys |-> "none"]

\* What a step hands to onNext.
StepData ==
    { NoData,
      [NoData EXCEPT !["mood"] = "calm"],
      [NoData EXCEPT !["mood"] = "wild"],
      [NoData EXCEPT !["intensity"] = "wild"] }

\* The spread that lets the earlier value of a key win.
Overlay_KeepEarlier(formData, stepData) ==
    [k \in DataKeys |-> IF formData[k] # "none" THEN formData[k] ELSE stepData[k]]

\* { ...formData, ...stepData }
Overlay(formData, stepData) ==
    [k \in DataKeys |-> IF stepData[k] # "none" THEN stepData[k] ELSE formData[k]]

\* The last call of a handler: which, and the step it was made on.
Action(kind, from) == [kind |-> kind, from |-> from]

WizardStart(n, initialData) ==
    [pc |-> "open",
     steps |-> n,                    \* steps.length
     initialData |-> initialData,
     currentStep |-> 0, formData |-> initialData,
     submitted |-> <<>>,             \* what the steps handed to onNext, in order
     last |-> Action("none", 0),
     received |-> NoData,            \* what onComplete received
     completions |-> 0,              \* calls of onComplete
     backs |-> 0]                    \* calls of router.back

WizardInit ==
    /\ PostIdle
    /\ wizard \in { WizardStart(n, d) :
                      n \in 1..MaxSteps,
                      d \in {NoData, [NoData EXCEPT !["mood"] = "calm"]} }
    /\ build = Idle /\ results = Idle /\ select = Idle
    /\ ad = Idle /\ quiz = Idle /\ proxy = Idle

\* handleNext on a step before the last.
WizardNext ==
    /\ wizard.pc = "open"
    /\ Len(wizard.submitted) < MaxSubmits
    /\ wizard.currentStep # wizard.steps - 1
    /\ \E stepData \in StepData :
          wizard' = [wizard EXCEPT
                       !.formData = Overlay(wizard.formData, stepData),
                       !.submitted = Append(@, stepData),
                       !.last = Action("next", wizard.currentStep),
                       !.currentStep = @ + 1]
    /\ UNCHANGED butWizard

\* handleNext on the last step.
WizardComplete ==
    /\ wizard.pc = "open"
    /\ Len(wizard.submitted) < MaxSubmits
    /\ wizard.currentStep = wizard.steps - 1
    /\ \E stepData \in StepData :
          wizard' = [wizard EXCEPT
                       !.formData = Overlay(wizard.formData, stepData),
                       !.submitted = Append(@, stepData),
                       !.last = Action("next", wizard.currentStep),
                       !.received = Overlay(wizard.formData, stepData),
                       !.completions = @ + 1,
                       !.pc = "completed"]
    /\ UNCHANGED butWizard

\* handleBack on a step after the first.
WizardBack ==
    /\ wizard.pc = "open"
    /\ wizard.currentStep # 0
    /\ wizard' = [wizard EXCEPT !.last = Action("back", wizard.currentStep),
                                !.currentStep = @ - 1]
    /\ UNCHANGED butWizard

\* handleBack on the first step: router.back().
WizardLeave ==
    /\ wizard.pc = "open"
    /\ wizard.currentStep = 0
    /\ wizard' = [wizard EXCEPT !.last = Action("back", wizard.currentStep),
                                !.backs = @ + 1, !.pc = "left"]
    /\ UNCHANGED butWizard

WizardStep == WizardNext \/ WizardComplete \/ WizardBack \/ WizardLeave

WizardSpec == WizardInit /\ [][WizardStep]_vars

(***************************************************************************)
(* From a completed quiz to validateQuizData                               *)
(***************************************************************************)

\* The values the option lists of the mood steps offer.
MoodOptions == {"happy", "relaxed"}
IntensityOptions == {"light", "intense"}
DurationOptions == {"short", "any"}
GenreChoices == { <<"action">>, <<"drama">>, <<"action", "drama">>, <<"drama", "action">> }

\* The data QuizWizard hands to onComplete of the mood quiz.
MoodData ==
    { [quiz |-> "mood", mood |-> JStr(<<m>>), desiredFeeling |-> JAbsent,
       genres |-> JArr(g), intensity |-> JStr(<<i>>), duration |-> JStr(<<d>>),
       selectedMovies |-> <<>>] :
        m \in MoodOptions, g \in GenreChoices, i \in IntensityOptions, d \in DurationOptions }

\* A movie as the selection step hands it on: genre_ids (the ids written as
\* tokens) and credits may be missing.
Selectable(title, genreIds, cast) == [title |-> title, genre_ids |-> genreIds, cast |-> cast]
SelectableMovies ==
    { Selectable("Inception", JArr(<<"28", "878">>), JAbsent),
      Selectable("Fight Club", JAbsent, JArr(<<"Brad Pitt", "Edward Norton", "Meat Loaf", "Jared Leto">>)),
      Selectable("Heat", JArr(<<"28">>), JArr(<<"Brad Pitt">>)) }

\* The data QuizWizard hands to onComplete of the likes quiz: 1 to 3 movies,
\* none twice.
LikesData ==
    { [quiz |-> "likes", mood |-> JAbsent, desiredFeeling |-> JAbsent,
       genres |-> JAbsent, intensity |-> JAbsent, duration |-> JAbsent,
       selectedMovies |-> sel] :
        sel \in { q \in SeqsUpTo(SelectableMovies, 3) :
                    /\ Len(q) >= 1
                    /\ \A i, j \in 1..Len(q) : q[i] = q[j] => i = j } }

AnyChoice == JStr(<<"any">>)

\* x || 'any'
OrAny(x) == IF JTruthy(x) THEN x ELSE AnyChoice

\* genres?.[0]
FirstOf(x) == IF x.t = "arr" /\ Len(x.a) > 0 THEN JStr(<<x.a[1]>>) ELSE JAbsent

\* Array.from(new Set(list)): the first occurrence of each entry, in order.
RECURSIVE Distinct(_)
Distinct(q) ==
    IF q = <<>> THEN <<>>
    ELSE LET front == Distinct(SubSeq(q, 1, Len(q) - 1))
             x == q[Len(q)]
         IN  IF \E i \in 1..Len(front) : front[i] = x THEN front ELSE Append(front, x)

\* selectedMovies.flatMap(f)
RECURSIVE FlatMap(_, _)
FlatMap(f(_), q) == IF q = <<>> THEN <<>> ELSE f(Head(q)) \o FlatMap(f, Tail(q))

\* movie.genre_ids || []
GenreIdsOf(m) == IF JTruthy(m.genre_ids) THEN m.genre_ids.a ELSE <<>>

\* movie.credits?.cast?.slice(0, 3).map((cast) => cast.name) || []
ActorsOf(m) == IF m.cast.t = "arr" THEN Slice(m.cast.a, 3) ELSE <<>>

\* A quiz payload: type and responses, a responses field the object lacks
\* being JAbsent.
Payload(type, responses) == [type |-> type, responses |-> responses]
NoPayloadYet == Payload("none", [f \in AllFields |-> JAbsent])

Responses(given) == [f \in AllFields |-> IF f \in DOMAIN given THEN given[f] ELSE JAbsent]

\* quizPayload of MoodQuiz.handleComplete
MoodPayload(data) ==
    Payload("mood",
            Responses([currentMood |-> data.mood,
                       desiredFeeling |-> OrAny(data.desiredFeeling),
                       genre |-> OrAny(FirstOf(data.genres)),
                       intensity |-> data.intensity,
                       setting |-> AnyChoice,
                       companionType |-> AnyChoice,
                       duration |-> data.duration]))

\* dislikedGenres left undefined.
DislikedGenres_Undefined == JAbsent

\* dislikedGenres: []
DislikedGenres == JArr(<<>>)

\* quizPayload of LikesQuiz.handleComplete
LikesPayload(data) ==
    Payload("likes",
            Responses([favoriteMovies |->
                          JArr([i \in 1..Len(data.selectedMovies) |-> data.selectedMovies[i].title]),
                       favoriteGenres |-> JArr(Distinct(FlatMap(GenreIdsOf, data.selectedMovies))),
                       favoriteActors |-> JArr(Distinct(FlatMap(ActorsOf, data.selectedMovies))),
                       dislikedGenres |-> DislikedGenres,
                       preferredDecade |-> AnyChoice,
                       viewingContext |-> AnyChoice]))

\* JSON.parse(JSON.stringify(v)) of one value: a string, number, array or
\* null comes back as it was, an undefined property is dropped.
RoundTripValue(v) ==
    CASE v.t = "str" -> JStr(v.s)
      [] v.t = "num" -> JNum(v.n)
      [] v.t = "arr" -> JArr(v.a)
      [] v.t = "null" -> JNull
      [] OTHER -> JAbsent

\* JSON.parse(JSON.stringify(payload))
RoundTrip(payload) ==
    Payload(payload.type, [f \in AllFields |-> RoundTripValue(payload.responses[f])])

\* The kind of a JSON value as validateQuizData tells values apart.
KindOf(v) ==
    CASE v.t = "absent" -> "absent"
      [] v.t = "null" -> "null"
      [] v.t = "str" -> IF v.s = <<>> THEN "emptystr" ELSE "str"
      [] v.t = "num" -> IF v.n = 0 THEN "zero" ELSE "str"
      [] OTHER -> IF v.a = <<>> THEN "emptyarr" ELSE "arr"

\* What request.json() gives for a posted payload.
BodyOf(payload) ==
    Body("object", payload.type, "object", [f \in AllFields |-> KindOf(payload.responses[f])])

QuizStart(data) ==
    [pc |-> "completing", data |-> data,
     payload |-> NoPayloadYet,         \* quizPayload
     pendingQuiz |-> NoPayloadYet,     \* sessionStorage, as the value the text decodes to
     completedQuiz |-> NoPayloadYet,
     posted |-> NoPayloadYet,          \* the body of the POST
     verdict |-> <<"none">>]           \* the message of validateQuizData, NoMsg when accepted

QuizInit ==
    /\ PostIdle
    /\ quiz \in { QuizStart(d) : d \in MoodData \cup LikesData }
    /\ build = Idle /\ results = Idle /\ select = Idle
    /\ ad = Idle /\ wizard = Idle /\ proxy = Idle

\* handleComplete of the quiz page.
QuizComplete ==
    /\ quiz.pc = "completing"
    /\ LET p == IF quiz.data.quiz = "mood" THEN MoodPayload(quiz.data)
                ELSE LikesPayload(quiz.data)
       IN  quiz' = [quiz EXCEPT !.pc = "ad", !.payload = p, !.pendingQuiz = RoundTrip(p)]
    /\ UNCHANGED butQuiz

\* The ad page parses 'pendingQuiz' and writes it as 'completedQuiz'.
QuizAdHandsOver ==
    /\ quiz.pc = "ad"
    /\ quiz' = [quiz EXCEPT !.pc = "results", !.completedQuiz = RoundTrip(quiz.pendingQuiz),
                            !.pendingQuiz = NoPayloadYet]
    /\ UNCHANGED butQuiz

\* The results page parses 'completedQuiz' and posts it.
QuizResultsPosts ==
    /\ quiz.pc = "results"
    /\ quiz' = [quiz EXCEPT !.pc = "posted", !.posted = RoundTrip(quiz.completedQuiz)]
    /\ UNCHANGED butQuiz

\* POST decodes the body and validates it.
QuizValidated ==
    /\ quiz.pc = "posted"
    /\ quiz' = [quiz EXCEPT !.pc = "validated",
                            !.verdict = validateQuizData(BodyOf(quiz.posted))]
    /\ UNCHANGED butQuiz

QuizNext == QuizComplete \/ QuizAdHandsOver \/ QuizResultsPosts \/ QuizValidated

QuizSpec == QuizInit /\ [][QuizNext]_vars

(***************************************************************************)
(* The movie-search proxy: GET /api/movies/search, in its two variants     *)
(***************************************************************************)

MaxQueryLength == 100
SearchLimit == 20

\* The good entries between the head and the tail of an upstream list.
MaxFill == 20
MaxHead == 2
MaxTail == 1

\* A query string is a sequence of characters, trimmed by Trim.
\* searchParams.get(name): null when the parameter is not there.
Params ==
    { JNull, JStr(<<>>), JStr(<<" ", " ">>), JStr(<<" ", "h", "e", "a", "t">>),
      JStr([i \in 1..(MaxQueryLength + 1) |-> "a"]) }

\* One movie of the provider's search response.
UpstreamMovie(id, title, released, poster, overview, average) ==
    [id |-> id, title |-> title, release_date |-> released, poster_path |-> poster,
     overview |-> overview, vote_average |-> average, genre_ids |-> JArr(<<"18">>)]

EntryKinds == {"good", "plain", "untitled", "undated", "posterless", "unrated"}

\* The movie at place id of a response, by what it lacks (vote_average in
\* tenths).
MovieOfKind(id, kind) ==
    UpstreamMovie(id,
                  IF kind = "untitled" THEN JStr(<<>>) ELSE JStr(<<"Heat">>),
                  IF kind = "undated" THEN JStr(<<>>) ELSE JStr(<<"1995-12-15">>),
                  IF kind = "posterless" THEN JNull ELSE JStr(<<"/heat.jpg">>),
                  IF kind = "plain" THEN JAbsent ELSE JStr(<<"A", "heist">>),
                  IF kind = "unrated" THEN JNum(0) ELSE JNum(79))

Fill(n) == [i \in 1..n |-> "good"]

\* The result lists the provider may send: any short head, a run of good
\* entries, any short tail.
UpstreamLists ==
    { [i \in 1..Len(kinds) |-> MovieOfKind(i, kinds[i])] :
        kinds \in { h \o Fill(n) \o t : h \in SeqsUpTo(EntryKinds, MaxHead),
                                        n \in 0..MaxFill,
                                        t \in SeqsUpTo(EntryKinds, MaxTail) } }

\* How the fetch settles: it rejects, the provider answers with an error
\* status, with a body without results, or with a result list.
Upstream(kind, list) == [kind |-> kind, results |-> list]
UpstreamOutcomes ==
    { Upstream(k, <<>>) : k \in {"rejects", "notOk", "noResults"} }
        \cup { Upstream("ok", l) : l \in UpstreamLists }

\* movie.title && movie.release_date && movie.poster_path && movie.vote_average > 0
Essential(m) ==
    /\ JTruthy(m.title)
    /\ JTruthy(m.release_date)
    /\ JTruthy(m.poster_path)
    /\ m.vote_average.t = "num" /\ m.vote_average.n > 0

\* results.filter(f)
RECURSIVE Filter(_, _)
Filter(f(_), q) ==
    IF q = <<>> THEN <<>>
    ELSE IF f(Head(q)) THEN <<Head(q)>> \o Filter(f, Tail(q)) ELSE Filter(f, Tail(q))

\* What the proxy passes on of one movie.
Formatted(m) ==
    [id |-> m.id, title |-> m.title, release_date |-> m.release_date,
     poster_path |-> m.poster_path,
     overview |-> IF JTruthy(m.overview) THEN m.overview ELSE JStr(<<>>),
     vote_average |-> m.vote_average]

\* The cut taken before the filter.
filteredResults_CutFirst(list) ==
    LET kept == Filter(Essential, Slice(list, SearchLimit))
    IN  [i \in 1..Len(kept) |-> Formatted(kept[i])]

\* filteredResults: filter, slice(0, 20), map.
filteredResults(list) ==
    LET kept == Slice(Filter(Essential, list), SearchLimit)
    IN  [i \in 1..Len(kept) |-> Formatted(kept[i])]

\* Math.min(a, b)
MathMin(a, b) == IF a < b THEN a ELSE b

\* The answer of the route: status, error text or results.
Answer(status, error, list, total) ==
    [status |-> status, error |-> error, results |-> list, total_results |-> total]
NoAnswer == Answer(0, <<>>, <<>>, 0)

\* The query the variant reads: q || query in the first, q in the second.
QueryOf(variant, q, query) == IF variant = 1 /\ ~JTruthy(q) THEN query ELSE q

\* !query || query.trim().length === 0
Blank(query) == ~JTruthy(query) \/ Len(Trim(query.s)) = 0

ProxyStart(variant, configured, q, query) ==
    [pc |-> "received", variant |-> variant,
     configured |-> configured,    \* TMDB_ACCESS_TOKEN / TMDB_API_KEY is set
     q |-> q, query |-> query,
     called |-> FALSE,             \* the provider has been fetched
     upstream |-> Upstream("none", <<>>),
     answer |-> NoAnswer]

ProxyInit ==
    /\ PostIdle
    /\ proxy \in { ProxyStart(v, c, q, query) :
                      v \in {1, 2}, c \in BOOLEAN, q \in Params, query \in Params }
    /\ build = Idle /\ results = Idle /\ select = Idle
    /\ ad = Idle /\ wizard = Idle /\ quiz = Idle

\* The checks of the first variant before the fetch; NoAnswer when it goes on.
Checks1(p) ==
    LET query == QueryOf(1, p.q, p.query)
    IN  IF Blank(query)
        THEN Answer(400, <<"Search", "query", "is", "required">>, <<>>, 0)
        ELSE IF ~p.configured
        THEN Answer(500, <<"TMDB", "access", "token", "not", "configured">>, <<>>, 0)
        ELSE NoAnswer

\* The checks of the second variant before the fetch.
Checks2(p) ==
    LET query == QueryOf(2, p.q, p.query)
    IN  IF ~p.configured
        THEN Answer(500, <<"Movie", "search", "service", "not", "configured">>, <<>>, 0)
        ELSE IF Blank(query)
        THEN Answer(400, <<"Search", "query", "is", "required">>, <<>>, 0)
        ELSE IF Len(query.s) > MaxQueryLength
        THEN Answer(400, <<"Search", "query", "too", "long">>, <<>>, 0)
        ELSE NoAnswer

\* GET up to its first await: it answers at once or fetches the provider.
ProxyGET ==
    /\ proxy.pc = "received"
    /\ LET early == IF proxy.variant = 1 THEN Checks1(proxy) ELSE Checks2(proxy)
       IN  proxy' = IF early # NoAnswer
                    THEN [proxy EXCEPT !.pc = "answered", !.answer = early]
                    ELSE [proxy EXCEPT !.pc = "fetching", !.called = TRUE]
    /\ UNCHANGED butProxy

\* The answer once the fetch has settled.
Settled(variant, out) ==
    CASE out.kind = "ok" ->
            Answer(200, <<>>, filteredResults(out.results),
                   MathMin(Len(out.results), SearchLimit))
      [] out.kind = "notOk" /\ variant = 2 ->
            Answer(503, <<"Movie", "search", "service", "temporarily", "unavailable">>, <<>>, 0)
      [] OTHER ->
            IF variant = 1
            THEN Answer(500, <<"Failed", "to", "search", "movies">>, <<>>, 0)
            ELSE Answer(500, <<"Internal", "server", "error">>, <<>>, 0)

\* The fetch settles and GET runs to its end.
ProxyFetchSettles ==
    /\ proxy.pc = "fetching"
    /\ \E out \in UpstreamOutcomes :
          proxy' = [proxy EXCEPT !.pc = "answered", !.upstream = out,
                                 !.answer = Settled(proxy.variant, out)]
    /\ UNCHANGED butProxy

ProxyNext == ProxyGET \/ ProxyFetchSettles

ProxySpec == ProxyInit /\ [][ProxyNext]_vars

(***************************************************************************)
(* Properties                                                              *)
(***************************************************************************)

\* The request was parsed and validateQuizData returned / threw.
Parsed == body.kind # "unparseable"
Accepted == Parsed /\ calls.ai >= 1
Rejected == Parsed /\ pc = "done" /\ calls.ai = 0

RecognizedTag == body.kind = "object" /\ body.type \in {"mood", "likes"}

\* A field required for the tag is not in responses, or a likes list field
\* holds something that is no array.
LacksRequiredField ==
    /\ RecognizedTag
    /\ body.rkind = "object"
    /\ \/ \E f \in RequiredOf(body.type) : body.fields[f] = "absent"
       \/ /\ body.type = "likes"
          /\ \E f \in Range(LikesArrayFields) : body.fields[f] \notin {"emptyarr", "arr"}

\* C1: every payload with a recognized tag whose responses lack a required
\* field (or, for likes, hold a non-array where an array is required) is
\* answered with status 400 and code INVALID_QUIZ_DATA.
C1_MissingFieldIs400 ==
    (pc = "done" /\ LacksRequiredField)
        => (response.status = 400 /\ response.code = "INVALID_QUIZ_DATA")

\* The body is no object, or has no type or no responses, or its type is
\* neither "mood" nor "likes".
MalformedEnvelope ==
    \/ body.kind \in {"null", "string", "number", "array"}
    \/ /\ body.kind = "object"
       /\ \/ body.type \notin {"mood", "likes"}
          \/ body.rkind \in {"absent", "null"}

\* C2: a body that is no object, or lacks type or responses, or whose type
\* is neither "mood" nor "likes", is answered with status 400 and code
\* INVALID_QUIZ_DATA, and no upstream call is made for it.
C2_MalformedEnvelopeIs400 ==
    (pc # "start" /\ MalformedEnvelope)
        => /\ pc = "done"
           /\ response.status = 400
           /\ response.code = "INVALID_QUIZ_DATA"
           /\ ~response.success

C2_Witness ==
    /\ pc = "done"
    /\ body.kind = "object" /\ body.type = "other" /\ body.rkind = "object"
    /\ response.status = 400

\* Every required field is in responses, the likes list fields being arrays.
AllFieldsPresent ==
    /\ RecognizedTag
    /\ body.rkind = "object"
    /\ \A f \in RequiredOf(body.type) : body.fields[f] # "absent"
    /\ body.type = "likes" =>
          \A f \in Range(LikesArrayFields) : body.fields[f] \in {"emptyarr", "arr"}

\* Every required field holds a truthy value (not null, false, "", 0), the
\* likes list fields being arrays.
AllFieldsTruthy ==
    /\ AllFieldsPresent
    /\ \A f \in RequiredOf(body.type) :
          body.fields[f] \notin {"null", "false", "emptystr", "zero"}

\* C3 as stated: validateQuizData accepts exactly the bodies that are objects
\* with a recognized type and every required field present (list fields
\* arrays), whatever values the present fields hold.
C3_AcceptsIffPresent ==
    (Parsed /\ pc # "start") => (Accepted <=> AllFieldsPresent)

\* C3 amended: validateQuizData accepts exactly the bodies that are objects
\* with a recognized type whose every required field holds a truthy value
\* (list fields arrays); every other body fails with an error.
C3_AcceptsIffTruthy ==
    (Parsed /\ pc # "start") =>
        /\ Accepted <=> AllFieldsTruthy
        /\ ~Accepted => (pc = "done" /\ thrown.isError /\ ~response.success)

C3_Witness ==
    /\ Rejected
    /\ AllFieldsPresent
    /\ body.type = "mood" /\ body.fields["intensity"] = "emptystr"

\* C4: once validateQuizData accepted the body, no reply or failure of the
\* AI provider or the metadata provider gives a response with code
\* INVALID_QUIZ_DATA or status 400.
C4_NoInvalidInputAfterAccept ==
    Accepted => (response.code # "INVALID_QUIZ_DATA" /\ response.status # 400)

\* C5: a failed model call is answered with code AI_API_ERROR and status 500.
C5_AIFailureIsAIError ==
    (pc = "done" /\ aiFailure.kind # "none")
        => (response.code = "AI_API_ERROR" /\ response.status = 500)

\* The search succeeded at HTTP level and gave no result.
ZeroResults == searchHttp = HttpOk /\ Len(ResultsOf(searchData)) = 0

\* C6: a search with zero results is answered with code MOVIE_NOT_FOUND and
\* status 500.
C6_ZeroResultsIsNotFound ==
    (pc = "done" /\ ZeroResults)
        => (response.code = "MOVIE_NOT_FOUND" /\ response.status = 500)

\* A search, details or credits call ended in a non-OK status or a rejected
\* fetch.
MetadataCallFailed ==
    \E o \in {searchHttp, detailsHttp, creditsHttp} : o.kind \in {"reject", "nonok"}

\* C7: a failed metadata-provider call (non-OK status or rejected fetch) is
\* answered with code TMDB_API_ERROR and status 500.
C7_MetadataFailureIsTmdbError ==
    (pc = "done" /\ MetadataCallFailed)
        => (response.code = "TMDB_API_ERROR" /\ response.status = 500)

\* C8: on a search that succeeds with zero results (or without a results
\* list) enrichment throws a not-found error, different from every error of a
\* non-OK search, and requests neither details nor credits.
C8_ZeroResultsNotFoundNoFetch ==
    ZeroResults =>
        /\ pc = "done"
        /\ thrown.isError
        /\ Includes(thrown.message, <<"not", "found">>)
        /\ Includes(thrown.message, suggestion.movieTitle)
        /\ \A st \in {"401", "404", "500"} :
              thrown # FetchError(Http("nonok", st), <<"search">>)
        /\ ~response.success
        /\ calls.details = 0 /\ calls.credits = 0
        /\ detailsHttp = NotSettled /\ creditsHttp = NotSettled

C8_Witness ==
    /\ ZeroResults
    /\ ~searchData.hasResults
    /\ thrown = Err(<<"Movie", "not", "found", ":", "Inception">>)

\* Some span of the reply is a JSON object.
ObjectSpans(text) ==
    { sp \in { SubSeq(text, i, j) : i \in DOMAIN text, j \in DOMAIN text } : Parses(sp) }

\* The object lacks movieTitle, explanation or matchReasons, or holds
\* something other than a string, a string and an array of strings in them.
LacksSuggestionFields(sp) ==
    \/ Get(sp, "movieTitle").t # "str"
    \/ Get(sp, "explanation").t # "str"
    \/ Get(sp, "matchReasons").t # "arr"
    \/ \E i \in DOMAIN Get(sp, "matchReasons").a : Get(sp, "matchReasons").a[i].t # "str"

UnusableReply(text) ==
    \/ ObjectSpans(text) = {}
    \/ \A sp \in ObjectSpans(text) : LacksSuggestionFields(sp)

\* C9: for a reply with no parseable JSON object, or whose object lacks
\* movieTitle, explanation or an array matchReasons (or has a wrong type in
\* them), the AI client does not throw: it returns the fixed fallback (The
\* Shawshank Redemption, 1994, three reasons, confidence 0.7) and the request
\* goes on to enrichment with it.
C9_UnusableReplyGivesFallback ==
    (aiReplied /\ UnusableReply(aiReply)) =>
        /\ aiFailure = NoAIFailure
        /\ usedFallback
        /\ suggestion.movieTitle = <<"The", "Shawshank", "Redemption">>
        /\ suggestion.year = JNum(1994)
        /\ Len(suggestion.matchReasons) = 3
        /\ suggestion.confidenceScore = Num(70)
        /\ suggestion = Fallback
        /\ IF tmdbKey THEN calls.search = 1
           ELSE thrown = Err(<<"TMDB", "API", "key", "not", "configured">>)
        /\ thrown.isError =>
              thrown.message \notin {AuthFailedMsg, RateLimitMsg, GenerateFailedMsg}
        /\ response.success => response.recommendation.explanation = Fallback.explanation

C9_Witness ==
    /\ aiReplied /\ aiReply = <<Prose>>
    /\ suggestion = Fallback
    /\ calls.search = 1
    /\ pc = "search_wait"

\* C10: when the model call fails generateRecommendation throws and does not
\* return the fallback; the fallback is returned only for a reply that was
\* received; the thrown error tells a 403 from a 429 from any other failure.
C10_CallFailureThrowsDistinctly ==
    /\ aiFailure.kind # "none" =>
          /\ pc = "done"
          /\ ~aiReplied /\ ~usedFallback /\ suggestion = NoSuggestion
          /\ calls.search = 0
          /\ ~response.success
          /\ thrown.isError
          /\ aiFailure.kind = "auth" <=> thrown.message = AuthFailedMsg
          /\ aiFailure.kind = "rate" <=> thrown.message = RateLimitMsg
          /\ aiFailure.kind = "other" <=> thrown.message = GenerateFailedMsg
    /\ usedFallback =>
          /\ aiReplied /\ aiFailure = NoAIFailure
          /\ aiReply # Written(GoodObject)
    /\ Cardinality({AuthFailedMsg, RateLimitMsg, GenerateFailedMsg}) = 3

C10_Witness ==
    /\ pc = "done"
    /\ aiFailure.kind = "rate"
    /\ thrown = Err(RateLimitMsg)

\* The span from the first "{" of a reply to the first "}" after it.
FirstObject(text) ==
    LET opens == {i \in DOMAIN text : text[i].c = "open"}
        first == CHOOSE i \in opens : \A j \in opens : i <= j
        closes == {i \in DOMAIN text : text[i].c = "close" /\ i > first}
        close == CHOOSE i \in closes : \A j \in closes : i <= j
    IN  IF opens = {} THEN <<>>
        ELSE IF closes = {} THEN <<>>
        ELSE SubSeq(text, first, close)

\* A JSON object as the prompt asks for it: a non-empty title and
\* explanation, a list of reason strings, and where given a numeric year and
\* confidence and a string alternative title.
WellFormedObject(sp) ==
    /\ Parses(sp)
    /\ ~LacksSuggestionFields(sp)
    /\ Get(sp, "movieTitle").s # <<>>
    /\ Get(sp, "explanation").s # <<>>
    /\ Get(sp, "year").t \in {"absent", "num"}
    /\ Get(sp, "confidenceScore").t \in {"absent", "num"}
    /\ Get(sp, "alternativeTitle").t \in {"absent", "str"}

\* C11: for a reply whose object has the required fields, a numeric
\* confidenceScore c is parsed to 1 when c > 1, to 0 when c < 0 and to c when
\* 0 <= c <= 1; an absent confidenceScore is parsed to 0.8.
C11_ConfidenceClampedOrDefault ==
    (aiReplied /\ WellFormedObject(aiReply)) =>
        LET c == Get(aiReply, "confidenceScore")
        IN  /\ (c.t = "num" /\ c.n > 100) => suggestion.confidenceScore = Num(100)
            /\ (c.t = "num" /\ c.n < 0) => suggestion.confidenceScore = Num(0)
            /\ (c.t = "num" /\ c.n >= 0 /\ c.n <= 100) =>
                  suggestion.confidenceScore = Num(c.n)
            /\ c.t = "absent" => suggestion.confidenceScore = Num(80)

\* A confidence that is a number between 0 and 1.
InUnitInterval(x) == ~x.nan /\ x.v >= 0 /\ x.v <= 100

\* C12: the confidence of every suggestion the AI client returns, and of
\* every recommendation returned, is a number in [0,1].
C12_ConfidenceInUnitInterval ==
    /\ aiReplied => InUnitInterval(suggestion.confidenceScore)
    /\ response.success => InUnitInterval(response.recommendation.confidenceScore)

\* C13: for a reply made of leading text, one well-formed JSON object and
\* trailing text (which may hold brace characters), the suggestion is built
\* from the fields of that object and is not the fallback.
C13_FirstObjectIsUsed ==
    (aiReplied /\ WellFormedObject(FirstObject(aiReply))) =>
        /\ ~usedFallback
        /\ suggestion.movieTitle = Trim(Get(FirstObject(aiReply), "movieTitle").s)
        /\ suggestion.explanation = Trim(Get(FirstObject(aiReply), "explanation").s)
        /\ Len(suggestion.matchReasons) = Len(Get(FirstObject(aiReply), "matchReasons").a)

\* The request went through with a well-formed reply, a search with at least
\* one result, and details and credits fetched.
HappyPath ==
    /\ Accepted
    /\ aiReplied /\ WellFormedObject(aiReply)
    /\ searchHttp = HttpOk /\ Len(ResultsOf(searchData)) >= 1
    /\ detailsHttp = HttpOk /\ creditsHttp = HttpOk

\* C14: a well-formed payload, a well-formed AI reply and a search with at
\* least one result (details and credits succeeding) give a success envelope
\* whose tmdbId is the id of the first search result and whose matchReasons
\* are as many as the reply's; no other result is used.
C14_EndToEndFirstResult ==
    HappyPath =>
        /\ pc = "done"
        /\ response.success /\ response.status = 200
        /\ response.recommendation.tmdbId = searchData.results[1]
        /\ response.recommendation.title = TitleOf(searchData.results[1])
        /\ Len(response.recommendation.matchReasons) = Len(Get(aiReply, "matchReasons").a)

C14_Witness ==
    /\ HappyPath
    /\ searchData.results = <<550, 27205>>
    /\ response.recommendation.tmdbId = 550
    /\ Len(response.recommendation.matchReasons) = 3

\* C15: in every assembled recommendation posterUrl is null exactly when the
\* record's poster_path is null and otherwise the w500 image base URL followed
\* by the path; backdropUrl likewise with backdrop_path and the w1280 base URL.
C15_ImageUrls ==
    response.success =>
        LET d == DetailsOf(searchData.results[1])
            rec == response.recommendation
        IN  /\ rec.posterUrl = JNull <=> d.poster_path = JNull
            /\ d.poster_path # JNull =>
                  rec.posterUrl = JStr(<<"https://image.tmdb.org/t/p/w500">> \o d.poster_path.s)
            /\ rec.backdropUrl = JNull <=> d.backdrop_path = JNull
            /\ d.backdrop_path # JNull =>
                  rec.backdropUrl = JStr(<<"https://image.tmdb.org/t/p/w1280">> \o d.backdrop_path.s)

C15_Witness ==
    /\ response.success
    /\ response.recommendation.posterUrl = JNull
    /\ response.recommendation.backdropUrl =
          JStr(<<"https://image.tmdb.org/t/p/w1280", "/inception-wide.jpg">>)

ErrorCodes ==
    {"INVALID_QUIZ_DATA", "AI_API_ERROR", "TMDB_API_ERROR", "MOVIE_NOT_FOUND", "INTERNAL_ERROR"}

\* C16: every response is a success envelope (success true, a recommendation
\* and metadata, status 200) or a failure envelope whose code is one of the
\* five codes, with status 400 exactly when the code is INVALID_QUIZ_DATA and
\* 500 otherwise.
C16_EnvelopeShape ==
    pc = "done" =>
        \/ /\ response.success
           /\ response.status = 200
           /\ response.recommendation # NoRecommendation
           /\ response.metadata.quizType = body.type
           /\ response.metadata.quizType \in {"mood", "likes"}
           /\ response.code = ""
        \/ /\ ~response.success
           /\ response.code \in ErrorCodes
           /\ response.status = 400 <=> response.code = "INVALID_QUIZ_DATA"
           /\ response.status = 500 <=> response.code # "INVALID_QUIZ_DATA"
           /\ response.recommendation = NoRecommendation

C16_Witness ==
    /\ pc = "done"
    /\ ~response.success
    /\ response.code = "INVALID_QUIZ_DATA" /\ response.status = 400

\* C17: no upstream call is issued before validation accepted the body, the
\* search only after the AI call returned a suggestion, details and credits
\* only after the search returned a non-empty result.
C17_StagesInOrder ==
    /\ calls.ai >= 1 => (Parsed /\ AllFieldsTruthy)
    /\ ~(Parsed /\ AllFieldsTruthy) =>
          calls = [ai |-> 0, search |-> 0, details |-> 0, credits |-> 0]
    /\ calls.search >= 1 =>
          /\ calls.ai >= 1
          /\ aiReplied /\ suggestion # NoSuggestion
    /\ (calls.details >= 1 \/ calls.credits >= 1) =>
          /\ calls.search >= 1
          /\ searchHttp = HttpOk /\ Len(ResultsOf(searchData)) >= 1

C17_Witness ==
    /\ pc = "fetch_wait"
    /\ calls = [ai |-> 1, search |-> 1, details |-> 1, credits |-> 1]
    /\ detailsHttp = NotSettled /\ creditsHttp = NotSettled

\* A fetch that settled as a failure.
FetchFailed(o) == o.kind \in {"reject", "nonok", "badjson"}

\* C18: details and credits are both issued before either settles; in every
\* order of settling, the recommendation is built only after both succeeded;
\* when either fails, enrichment fails and no recommendation is returned.
C18_JoinBeforeAssembly ==
    /\ calls.details = calls.credits
    /\ (detailsHttp # NotSettled \/ creditsHttp # NotSettled) =>
          (calls.details = 1 /\ calls.credits = 1)
    /\ (response.success \/ response.recommendation # NoRecommendation) =>
          (detailsHttp = HttpOk /\ creditsHttp = HttpOk)
    /\ (pc = "fetch_wait" /\ (detailsHttp = NotSettled \/ creditsHttp = NotSettled)) =>
          response = NoResponse
    /\ (FetchFailed(detailsHttp) \/ FetchFailed(creditsHttp)) =>
          /\ pc = "done"
          /\ ~response.success
          /\ response.recommendation = NoRecommendation

C18_Witness ==
    /\ pc = "fetch_wait"
    /\ creditsHttp = HttpOk /\ detailsHttp = NotSettled
    /\ response = NoResponse

\* C19: within one request there is at most one text-generation, search,
\* details and credits call, and a request answered with a success envelope
\* made exactly one of each.
C19_NoRetries ==
    /\ calls.ai <= 1 /\ calls.search <= 1 /\ calls.details <= 1 /\ calls.credits <= 1
    /\ response.success =>
          calls = [ai |-> 1, search |-> 1, details |-> 1, credits |-> 1]

C19_Witness ==
    /\ response.success
    /\ calls = [ai |-> 1, search |-> 1, details |-> 1, credits |-> 1]

\* C20: whatever is raised in the flow, the handler returns one failure
\* envelope; a failure that is no input-validation, AI-provider,
\* metadata-provider or not-found failure (an unparseable request body, an
\* error during assembly) gets code INTERNAL_ERROR with status 500.
C20_UnclassifiedIsInternalError ==
    (pc = "done" /\ (body.kind = "unparseable" \/ thrown = AssemblyError)) =>
        /\ ~response.success
        /\ response.code = "INTERNAL_ERROR"
        /\ response.status = 500

Min(a, b) == IF a < b THEN a ELSE b

\* C21: the cast of an assembled recommendation is the first min(5, n) of the
\* provider's n cast entries in the provider's order, each with profileUrl
\* null exactly when its profile_path is null; tmdbUrl is present and built
\* from the record id; imdbUrl is present exactly when the record carries an
\* imdb_id.
C21_CastAndLinks ==
    build.returned =>
        LET cast == build.credits.cast
            rec == build.result
        IN  /\ Len(rec.cast) = Min(5, Len(cast))
            /\ \A i \in 1..Len(rec.cast) :
                  /\ rec.cast[i].name = cast[i].name
                  /\ rec.cast[i].character = cast[i].character
                  /\ rec.cast[i].profileUrl = JNull <=> cast[i].profile_path = JNull
                  /\ cast[i].profile_path # JNull =>
                        rec.cast[i].profileUrl =
                           JStr(<<"https://image.tmdb.org/t/p/w500">> \o cast[i].profile_path.s)
            /\ rec.tmdbUrl = <<"https://www.themoviedb.org/movie/", ToString(build.details.id)>>
            /\ rec.imdbUrl # JAbsent <=> build.details.imdb_id # JNull
            /\ build.details.imdb_id # JNull =>
                  rec.imdbUrl = JStr(<<"https://www.imdb.com/title/">> \o build.details.imdb_id.s)

C21_Witness ==
    /\ build.returned
    /\ Len(build.credits.cast) = 6
    /\ Len(build.result.cast) = 5
    /\ build.result.cast[5].profileUrl = JNull
    /\ build.result.imdbUrl = JAbsent

\* C22: the recommendation's explanation, matchReasons and confidenceScore
\* are the suggestion's, unchanged, and its title, overview, releaseDate,
\* voteCount and runtime are the record's; the title is the record's title,
\* not the one the suggestion carries.
C22_MergeKeepsBothSides ==
    build.returned =>
        /\ build.result.explanation = build.ai.explanation
        /\ build.result.matchReasons = build.ai.matchReasons
        /\ build.result.confidenceScore = build.ai.confidenceScore
        /\ build.result.title = build.details.title
        /\ build.result.overview = build.details.overview
        /\ build.result.releaseDate = build.details.release_date
        /\ build.result.voteCount = build.details.vote_count
        /\ build.result.runtime = build.details.runtime

C22_Witness ==
    /\ build.returned
    /\ build.ai.movieTitle = <<"The", "Matrix", "(1999)">>
    /\ build.result.title = <<"Inception">>
    /\ build.result.runtime = JNum(136)

\* The flow of the results page failed after setQuizData stored a payload.
FailedAfterLoad ==
    /\ results.pc = "done"
    /\ results.loading = "error"
    /\ results.quizData.kind = "object"

\* C23: whenever the recommendation flow of the results page fails after the
\* quiz data was loaded, a recommendation_error event is tracked that carries
\* the quiz type and the error message.
C23_FailureIsTracked ==
    FailedAfterLoad =>
        \E i \in 1..Len(results.events) :
            /\ results.events[i].name = "recommendation_error"
            /\ results.events[i].quiz_type = results.quizData.type
            /\ results.events[i].error_message = results.error

NoIdTwice(sel) == \A i, j \in 1..Len(sel) : sel[i] = sel[j] => i = j

Holds(sel, film) == \E i \in 1..Len(sel) : sel[i] = film

\* C24: after any sequence of toggles from at most 3 distinct movies the
\* selection holds at most 3 movies and no id twice; toggling a selected
\* movie removes it, toggling an unselected one adds it only when fewer than
\* 3 are selected and otherwise changes nothing; onNext receives a selection
\* of 1 to 3 movies, and only then is it called.
C24_SelectionWithinBounds ==
    /\ Len(select.selectedMovies) <= 3
    /\ NoIdTwice(select.selectedMovies)
    /\ select.lastToggle # NoToggle =>
          LET prev == select.lastToggle.prev
              film == select.lastToggle.movie
              now == select.selectedMovies
          IN  /\ Holds(prev, film) =>
                    /\ ~Holds(now, film)
                    /\ Len(now) = Len(prev) - 1
                    /\ \A i \in 1..Len(prev) : prev[i] # film => Holds(now, prev[i])
              /\ (~Holds(prev, film) /\ Len(prev) < 3) => now = prev \o <<film>>
              /\ (~Holds(prev, film) /\ Len(prev) >= 3) => now = prev
    /\ select.nextCalls > 0 =>
          /\ Len(select.handed) >= 1 /\ Len(select.handed) <= 3
          /\ NoIdTwice(select.handed)
    /\ select.pc = "refused" => select.nextCalls = 0

\* A third movie was added to the selection and the step rendered again.
C24_Witness ==
    /\ select.lastToggle = Toggle(27205, <<550, 603>>)
    /\ select.selectedMovies = <<550, 603, 27205>>
    /\ select.rendered = select.selectedMovies

\* C28: the results on display belong to the most recently issued search: a
\* response to an older query never replaces the results of a newer one, and
\* no results are on display once the query was cleared.
C28_ResultsOfLatestSearch ==
    /\ select.searchResults.movies # <<>> => select.searchResults.query = select.latest
    /\ Trim(select.latest) = <<>> => select.searchResults.movies = <<>>

\* C25: once pending quiz data was loaded the ad page eventually navigates to
\* /results, whether the video ends, fails or never ends; whenever it
\* navigates there, 'completedQuiz' holds the payload that was stored as
\* 'pendingQuiz' and 'pendingQuiz' is removed; with no pending quiz data it
\* navigates to the home page.
C25_AdLeadsToResults ==
    /\ [](ad.route = "/results" =>
            /\ ad.found.kind = "json"
            /\ ad.completedQuiz = Item("json", ad.found.value)
            /\ ad.pendingQuiz = NoItem)
    /\ []((ad.pc # "mounting" /\ ad.found = NoItem) => ad.route = "/")
    /\ (ad.quizData # NoQuiz) ~> (ad.route = "/results")

\* The video never fired an event: the fallback timer led to the results.
C25_Witness ==
    /\ ad.route = "/results"
    /\ ~ad.ended /\ ~ad.failed
    /\ ad.found = Item("json", QuizPayload("likes"))
    /\ ad.completedQuiz = Item("json", QuizPayload("likes"))
    /\ ad.pendingQuiz = NoItem

\* C26: ad completion takes effect at most once per visit: under every
\* interleaving of the ended event, the error event and the fallback timer,
\* ad_viewed is tracked at most once and the hand-over is scheduled at most
\* once.
C26_AdCompletesOnce ==
    /\ ad.viewed <= 1
    /\ ad.scheduled <= 1

\* The value of key k after the submissions: that of the last submission
\* that has the key, the initial one when none has.
Collected(k) ==
    LET having == { i \in 1..Len(wizard.submitted) : wizard.submitted[i][k] # "none" }
    IN  IF having = {} THEN wizard.initialData[k]
        ELSE wizard.submitted[CHOOSE i \in having : \A j \in having : j <= i][k]

\* C27: the step index of QuizWizard stays within 0 .. steps.length-1; next
\* on a non-last step advances by one, back on a non-first step goes back by
\* one, back on the first step leaves the index at 0 and navigates away;
\* onComplete is invoked only by next on the last step, with the initial data
\* overlaid with every submission so far, later ones overriding; going back
\* never discards collected data.
C27_WizardStaysInRange ==
    /\ wizard.currentStep >= 0 /\ wizard.currentStep <= wizard.steps - 1
    /\ (wizard.last.kind = "next" /\ wizard.last.from < wizard.steps - 1) =>
          (wizard.currentStep = wizard.last.from + 1 /\ wizard.pc = "open")
    /\ (wizard.last.kind = "back" /\ wizard.last.from > 0) =>
          (wizard.currentStep = wizard.last.from - 1 /\ wizard.pc = "open")
    /\ (wizard.last.kind = "back" /\ wizard.last.from = 0) =>
          (wizard.currentStep = 0 /\ wizard.pc = "left" /\ wizard.backs = 1)
    /\ wizard.completions <= 1
    /\ wizard.completions = 1 <=>
          (wizard.last.kind = "next" /\ wizard.last.from = wizard.steps - 1)
    /\ wizard.completions = 1 =>
          \A k \in DataKeys : wizard.received[k] = Collected(k)
    /\ \A k \in DataKeys : wizard.formData[k] = Collected(k)

\* Completed after going back and submitting the first step again.
C27_Witness ==
    /\ wizard.pc = "completed"
    /\ wizard.steps = 2
    /\ Len(wizard.submitted) = 3
    /\ wizard.submitted[1]["mood"] = "calm"
    /\ wizard.submitted[2]["mood"] = "wild"
    /\ wizard.received["mood"] = "wild"
    /\ wizard.received["intensity"] = "wild"

\* C29: every payload the two quiz pages produce on completion, carried
\* through 'pendingQuiz' and 'completedQuiz' to the results page, arrives
\* unchanged and is accepted by validateQuizData.
C29_CompletedQuizIsAccepted ==
    /\ quiz.pc \in {"posted", "validated"} =>
          \A f \in AllFields :
              /\ quiz.posted.responses[f] = quiz.payload.responses[f]
              /\ quiz.posted.type = quiz.payload.type
    /\ quiz.pc = "validated" =>
          /\ quiz.verdict = NoMsg
          /\ ErrorCode(Err(quiz.verdict)) # "INVALID_QUIZ_DATA"

\* A likes quiz whose movies carry no cast: favoriteActors is [].
C29_Witness ==
    /\ quiz.pc = "validated"
    /\ quiz.payload.type = "likes"
    /\ quiz.posted.responses["favoriteActors"] = JArr(<<>>)
    /\ quiz.posted.responses["dislikedGenres"] = JArr(<<>>)
    /\ Len(quiz.posted.responses["favoriteMovies"].a) = 1

\* The entries of an answer are entries of the provider's list in the
\* provider's order, at most 20, each with title, release date, poster path
\* and a rating above 0, and no such entry of the provider's list is passed
\* over before the last one returned (nor at all when fewer than 20 are
\* returned).
ProxyResultsRight ==
    (proxy.pc = "answered" /\ proxy.answer.status = 200) =>
        LET out == proxy.answer.results
            up == proxy.upstream.results
        IN  /\ Len(out) <= 20
            /\ \A i \in 1..Len(out) :
                  /\ out[i].id \in 1..Len(up)
                  /\ up[out[i].id].id = out[i].id
                  /\ out[i].title = up[out[i].id].title /\ out[i].title.s # <<>>
                  /\ out[i].release_date = up[out[i].id].release_date
                  /\ out[i].release_date.s # <<>>
                  /\ out[i].poster_path = up[out[i].id].poster_path
                  /\ out[i].poster_path.t = "str" /\ out[i].poster_path.s # <<>>
                  /\ out[i].vote_average = up[out[i].id].vote_average
                  /\ out[i].vote_average.n > 0
            /\ \A i, j \in 1..Len(out) : i < j => out[i].id < out[j].id
            /\ \A k \in 1..Len(up) :
                  (/\ up[k].title.s # <<>> /\ up[k].release_date.s # <<>>
                   /\ up[k].poster_path.t = "str" /\ up[k].vote_average.n > 0
                   /\ (Len(out) < 20 \/ k < out[Len(out)].id))
                  => \E i \in 1..Len(out) : out[i].id = k

\* The request carries no query: the parameter read is missing, empty or
\* whitespace only.
NoQueryGiven ==
    LET query == IF proxy.variant = 1 /\ (proxy.q.t = "null" \/ proxy.q.s = <<>>)
                 THEN proxy.query ELSE proxy.q
    IN  query.t = "null" \/ \A i \in 1..Len(query.s) : query.s[i] = " "

\* C30 as stated: the results are right, and a request without a query is
\* answered 400 without a call of the provider.
C30_ProxyContract ==
    /\ ProxyResultsRight
    /\ NoQueryGiven => ~proxy.called
    /\ (proxy.pc = "answered" /\ NoQueryGiven) => proxy.answer.status = 400

\* C30, amended: the results are right; a request without a query never
\* reaches the provider and is answered 400, except by the second variant
\* when its API key is not configured, which answers 500.
C30_ProxyContractWhenConfigured ==
    /\ ProxyResultsRight
    /\ NoQueryGiven => ~proxy.called
    /\ (proxy.pc = "answered" /\ NoQueryGiven) =>
          proxy.answer.status = IF proxy.variant = 2 /\ ~proxy.configured THEN 500 ELSE 400

\* Twenty entries returned although the provider's first twenty hold
\* entries that were dropped.
C30_Witness ==
    /\ proxy.pc = "answered"
    /\ proxy.answer.status = 200
    /\ Len(proxy.answer.results) = 20
    /\ proxy.answer.results[20].id = 22
    /\ Len(proxy.upstream.results) = 23

====
